---- MODULE Spec2Model ----
(***************************************************************************)
(* OpenDia: a bridge process (opendia-mcp/server.js) forwards tools/call   *)
(* requests of an MCP client to a browser-resident agent                   *)
(* (opendia-extension/src/background/background.js) over a WebSocket.      *)
(*                                                                         *)
(* Spec      : the bridge's transport/correlation layer, the agent and     *)
(*             the network being its environment.                          *)
(* AgentSpec : the agent's ConnectionManager and request handler, the      *)
(*             bridge and the network being its environment.               *)
(* RpcSpec, DispatchSpec, ParseSpec, ContentSpec, TabSpec (TabLiveSpec     *)
(* with fairness), PlatformSpec, SafetySpec: one component each, see the   *)
(* section headers below.                                                  *)
(***************************************************************************)
EXTENDS Integers, Sequences, FiniteSets, TLC

\* ------------------------------------------------------------------ bounds
\* tools/call requests the client issues in one run of the bridge
MaxCalls == 2
\* WebSocket connections accepted by the bridge in one run
MaxSockets == 2
\* milliseconds the clock may advance one by one inside a 30 s window
MaxMs == 1
\* 30 s windows the clock may advance
MaxEpochs == 1
\* frames the network duplicates or strays in one run
MaxDup == 1

\* forwarded calls the agent receives in one run
MaxReqs == 1
\* WebSocket objects of the agent that are alive at the same time
MaxASockets == 2
\* popup "reconnect" messages in one run
MaxManual == 1
\* createConnection invocations of timers and popup suspended in port discovery
MaxCreating == 1
\* automatic reconnect attempts that are counted
MaxAuto == 11
\* largest reconnectAttempts value tracked
AttemptsCap == 12
\* scheduled reconnect delays that are recorded
MaxDelays == 5
\* tabs open in the browser
MaxTabs == 2
\* words in an intent hint
MaxHintWords == 2
\* navigations and reloads of the tab
MaxGen == 1
\* visible elements of a document
MaxElems == 2
\* largest value of idCounter and quickIdCounter
MaxIds == 2
\* largest count and urls length a batch is run with
MaxCount == 3
\* times the user switches to another tab while a batch runs
MaxUserActs == 1
\* labels of a hostname
MaxLabels == 3
\* handleMCPRequest invocations in one run of the safety switch
MaxSReqs == 2
\* changes of the popup's safety switch in one run
MaxToggles == 2

\* ------------------------------------------------------- program constants
\* scheduleReconnect: Math.min(5000 * Math.pow(2, attempts), 30000)
BackoffBase == 5000
BackoffCap == 30000
\* scheduleReconnect: if (this.reconnectAttempts < 10)
MaxReconnectAttempts == 10
\* createConnection: this.reconnectAttempts > 2
DiscoveryThreshold == 2
\* setTimeout(..., 30000) of callBrowserTool
TimeoutMs == 30000

NULL == 0
\* an id no callBrowserTool has produced (Date.now() is never negative)
UnknownId == -1
\* a request that carries no id (undefined or null)
NoId == -1

\* a targetTabId that was not given (undefined or null)
NoTabId == -1
\* ENHANCED_PATTERNS[category]?.[action] is undefined
NoPattern == -1

Calls == 1..MaxCalls
TabIds == 1..MaxTabs
SockIds == 1..MaxSockets
Reqs == 1..MaxReqs
ASockIds == 1..MaxASockets
SReqIds == 1..MaxSReqs

VARIABLES
  \* ---- bridge (opendia-mcp/server.js)
  now,                   \* Date.now()
  bsock,                 \* readyState of each agent socket at the bridge
  chromeExtensionSocket, \* let chromeExtensionSocket
  availableTools,        \* let availableTools
  pendingCalls,          \* const pendingCalls = new Map(): id -> {resolve, reject} of a call
  callSt,                \* position of each tools/call request
  callId,                \* callId of the request's callBrowserTool
  timer,                 \* the request's setTimeout is armed (due at callId + 30000)
  outcome,               \* what handleMCPRequest answered the request with
  payload,               \* the forwarded request whose result/error the outcome carries
  settleCalls,           \* times resolve/reject of the request's promise was invoked
  toAgent,               \* forwarded calls written to a socket
  toBridge,              \* frames in flight to the bridge
  dups,                  \* frames duplicated or strayed so far
  \* ---- agent (opendia-extension/src/background/background.js)
  isServiceWorker,       \* browserInfo.isServiceWorker (connect-on-demand host)
  urlDefault,            \* MCP_SERVER_URL === 'ws://localhost:5555'
  serverUp,              \* the bridge is reachable
  everUp,                \* the bridge has been reachable at some time (history)
  asock,                 \* readyState of each WebSocket the agent created
  mcpSocket,             \* this.mcpSocket
  reconnectAttempts,     \* this.reconnectAttempts
  reconnectInterval,     \* this.reconnectInterval: NULL, or the period it was armed with
  heartbeatInterval,     \* this.heartbeatInterval is armed
  creating,              \* createConnection invocations suspended in discoverServerPorts
  started,               \* the start-up setTimeout has fired
  manual,                \* popup "reconnect" messages so far
  hpc,                   \* position of each handleMCPRequest invocation
  replied,               \* what became of the invocation's reply
  delaySeq,              \* the delays scheduleReconnect has scheduled while the
                         \* bridge has never been reachable (history)
  autoAttempts,          \* connect() calls of the reconnect timer since the last
                         \* manual reconnect, while the bridge has never been
                         \* reachable (history)
  \* ---- bridge, history
  registered,            \* sockets a register message has arrived on (history)
  \* ---- bridge request handler and transports (opendia-mcp/server.js)
  rpcReq,                \* the request handleMCPRequest was last called with
  rpcSt,                 \* position of that invocation
  rpcRet,                \* what the invocation returned: <<>> for null
  rpcOut,                \* what the transport wrote for it
  \* ---- agent dispatcher (background.js: sendToContentScript)
  hasScripting,          \* browser.scripting exists (Chrome MV3; not Firefox MV2)
  tabs,                  \* ids of the open tabs
  activeTab,             \* the active tab of the current window, or NULL
  csState,               \* content script of each tab: "ready", "stale"
                         \* (loaded, not answering) or "none"
  injectable,            \* isInjectableUrl(tab.url) of each tab
  dPc,                   \* position of the sendToContentScript invocation
  dParam,                \* its targetTabId argument
  dTarget,               \* targetTab.id
  dAttempt,              \* attempt of ensureContentScriptReady's loop
  dProbed,               \* tabs a ping was sent to in this dispatch (history)
  dProbeOk,              \* tabs whose ping answered success (history)
  dInjected,             \* tabs the content script was injected into (history)
  dSent,                 \* tabs the handler message was sent to (history)
  dEvents,               \* what ensureContentScriptReady did in this dispatch,
                         \* in order (history)
  dResult,               \* how the invocation ended
  \* ---- content script, intent parser (content.js: parseIntent)
  pHint,                 \* the intent hint parseIntent is called with
  pResult,               \* the [category, action] it returned, <<>> before the call
  pPattern,              \* ENHANCED_PATTERNS[category]?.[action] of the caller
  \* ---- content script of one tab (content.js: BrowserAutomation)
  pageGen,               \* navigations and reloads of the tab so far
  pageHost,              \* window.location.hostname: "platform" or "plain"
  page,                  \* the document's visible elements, in document order
  elementRegistry,       \* this.elementRegistry: n of element_n -> element
  quickRegistry,         \* this.quickRegistry: n of qn -> element
  idCounter,             \* this.idCounter
  quickIdCounter,        \* this.quickIdCounter
  issued,                \* ids returned to the caller, with their generation and
                         \* the element they were returned for, 0 once its
                         \* document is gone (history)
  cReq,                  \* the message handleMessage was last called with
  cResp,                 \* what handleMessage answered it with
  fillSteps,             \* the fill routines the last element_fill entered, in
                         \* order: "bypass" (returned), "bypass_threw",
                         \* "standard" (history)
  \* ---- agent tab management (background.js: createTab)
  tParams,               \* the params createTab was called with
  tPc,                   \* position of the createTab invocation
  tUrls,                 \* urls of createTabsBatch
  chunkStart,            \* chunkStart of the outer loop
  tI,                    \* i of the inner loop
  newTab,                \* id of the tab browser.tabs.create just returned
  nextTabId,             \* the id the browser gives the next tab
  browserActive,         \* the active tab of the window: a created tab, 0 another
  userActs,              \* tab switches of the user so far
  createCalls,           \* the browser.tabs.create calls made (history)
  createdTabs,           \* createdTabs of createTabsBatch
  errors,                \* errors of createTabsBatch
  tRet,                  \* what createTab returned or threw
  tLog,                  \* the creation attempts and the waits between them, in
                         \* order (history)
  \* ---- content script, platform lookup (content.js: detectAntiDetectionPlatform)
  hHostname,             \* the hostname the lookup is called with
  hConfig,               \* what it returned, "unset" before the call
  \* ---- agent safety mode (background.js: safetyModeEnabled)
  safetyModeEnabled,     \* let safetyModeEnabled
  safetyStored,          \* storage.local 'safetyMode'
  safetyLoaded,          \* the start-up storage.local.get has called back
  safetyMsgs,            \* setSafetyMode messages on their way to the background
  toggles,               \* changes of the popup's safety switch so far
  sMethod,               \* method of each handleMCPRequest invocation
  sPc,                   \* position of the invocation
  sChecked,              \* safetyModeEnabled as the invocation's check read it (history)
  sReply,                \* what the invocation answered
  tabMessages            \* the browser.tabs.sendMessage calls made (history)

bvars == <<now, bsock, chromeExtensionSocket, availableTools, pendingCalls, callSt,
           callId, timer, outcome, payload, settleCalls, toAgent, toBridge, dups>>

avars == <<isServiceWorker, urlDefault, serverUp, everUp, asock, mcpSocket,
           reconnectAttempts, reconnectInterval, heartbeatInterval, creating, started,
           manual, hpc, replied, delaySeq, autoAttempts>>

hvars == <<registered>>

rvars == <<rpcReq, rpcSt, rpcRet, rpcOut>>

dvars == <<hasScripting, tabs, activeTab, csState, injectable, dPc, dParam, dTarget,
           dAttempt, dProbed, dProbeOk, dInjected, dSent, dEvents, dResult>>

pvars == <<pHint, pResult, pPattern>>

cvars == <<pageGen, pageHost, page, elementRegistry, quickRegistry, idCounter,
           quickIdCounter, issued, cReq, cResp, fillSteps>>

tvars == <<tParams, tPc, tUrls, chunkStart, tI, newTab, nextTabId, browserActive,
           userActs, createCalls, createdTabs, errors, tRet, tLog>>

mvars == <<hHostname, hConfig>>

svars == <<safetyModeEnabled, safetyStored, safetyLoaded, safetyMsgs, toggles, sMethod, sPc,
           sChecked, sReply, tabMessages>>

\* the variables of the other components
ovars == <<rvars, dvars, pvars, cvars, tvars, mvars, svars>>

vars == <<bvars, avars, hvars, ovars>>

\* ---------------------------------------------------------------- helpers
\* the tool list an agent announces over socket s (getAvailableTools of the
\* agent version behind that connection)
ToolsOf(s) == [i \in 1..s |-> "tool"]

\* Map.prototype.set
MapSet(m, k, v) == [x \in (DOMAIN m) \cup {k} |-> IF x = k THEN v ELSE m[x]]
\* Map.prototype.delete
MapDelete(m, k) == [x \in (DOMAIN m) \ {k} |-> m[x]]
EmptyMap == [x \in {} |-> NULL]

\* chromeExtensionSocket && chromeExtensionSocket.readyState === WebSocket.OPEN
ExtensionConnected ==
  /\ chromeExtensionSocket # NULL
  /\ bsock[chromeExtensionSocket] = "OPEN"

\* GET /health
Health == [chromeExtensionConnected |-> chromeExtensionSocket # NULL,
           availableTools |-> Len(availableTools)]

\* the timeout callback of request c has run
TimerRan(c) == callId[c] # UnknownId /\ ~timer[c]

\* ------------------------------------------------------------------- Init
BridgeInit ==
  /\ now = 0
  /\ bsock = [s \in SockIds |-> "NONE"]
  /\ chromeExtensionSocket = NULL
  /\ availableTools = <<>>
  /\ pendingCalls = EmptyMap
  /\ callSt = [c \in Calls |-> "idle"]
  /\ callId = [c \in Calls |-> UnknownId]
  /\ timer = [c \in Calls |-> FALSE]
  /\ outcome = [c \in Calls |-> "none"]
  /\ payload = [c \in Calls |-> NULL]
  /\ settleCalls = [c \in Calls |-> 0]
  /\ toAgent = {}
  /\ toBridge = {}
  /\ dups = 0
  /\ registered = {}

\* the agent after construction of the ConnectionManager
AgentInit ==
  /\ isServiceWorker \in BOOLEAN
  /\ urlDefault = TRUE
  /\ serverUp \in BOOLEAN
  /\ everUp = serverUp
  /\ asock = [s \in ASockIds |-> "UNUSED"]
  /\ mcpSocket = NULL
  /\ reconnectAttempts = 0
  /\ reconnectInterval = NULL
  /\ heartbeatInterval = FALSE
  /\ creating = 0
  /\ started = FALSE
  /\ manual = 0
  /\ hpc = [r \in Reqs |-> "idle"]
  /\ replied = [r \in Reqs |-> "none"]
  /\ delaySeq = <<>>
  /\ autoAttempts = 0

\* no request has reached the bridge's handleMCPRequest
RpcInit ==
  /\ rpcReq = [id |-> NoId, method |-> <<>>, via |-> "stdio"]
  /\ rpcSt = "idle"
  /\ rpcRet = <<>>
  /\ rpcOut = <<>>

\* the browser's tabs, and no sendToContentScript invocation yet
DispatchInit ==
  /\ hasScripting \in BOOLEAN
  /\ tabs = TabIds
  /\ activeTab = 1
  /\ csState \in [TabIds -> {"ready", "stale", "none"}]
  /\ injectable \in [TabIds -> BOOLEAN]
  /\ dPc = "idle"
  /\ dParam = NoTabId
  /\ dTarget = NULL
  /\ dAttempt = 0
  /\ dProbed = {}
  /\ dProbeOk = {}
  /\ dInjected = {}
  /\ dSent = {}
  /\ dEvents = <<>>
  /\ dResult = "none"

\* the dispatcher as the other specifications see it
DispatchOff ==
  /\ DispatchInit
  /\ hasScripting
  /\ csState = [t \in TabIds |-> "ready"]
  /\ injectable = [t \in TabIds |-> TRUE]

\* the parser as the other specifications see it: never called
ParseOff ==
  /\ pHint = <<>>
  /\ pResult = <<>>
  /\ pPattern = NULL

\* the content script as the other specifications see it: an empty document
ContentOff ==
  /\ pageGen = 0
  /\ pageHost = "plain"
  /\ page = <<>>
  /\ elementRegistry = EmptyMap
  /\ quickRegistry = EmptyMap
  /\ idCounter = 0
  /\ quickIdCounter = 0
  /\ issued = {}
  /\ cReq = [action |-> "none"]
  /\ cResp = [success |-> TRUE, data |-> "none"]
  /\ fillSteps = <<>>

\* createTab before it is called
TabInit ==
  /\ tParams = <<>>
  /\ tPc = "idle"
  /\ tUrls = <<>>
  /\ chunkStart = 0
  /\ tI = 0
  /\ newTab = 0
  /\ nextTabId = 1
  /\ browserActive = 0
  /\ userActs = 0
  /\ createCalls = <<>>
  /\ createdTabs = <<>>
  /\ errors = <<>>
  /\ tRet = <<>>
  /\ tLog = <<>>

\* detectAntiDetectionPlatform before it is called
PlatformOff ==
  /\ hHostname = <<>>
  /\ hConfig = "unset"

\* the module-level code of background.js has run, nothing else
SafetyOff ==
  /\ safetyModeEnabled = FALSE
  /\ safetyStored = FALSE
  /\ safetyLoaded = FALSE
  /\ safetyMsgs = <<>>
  /\ toggles = 0
  /\ sMethod = [r \in SReqIds |-> "none"]
  /\ sPc = [r \in SReqIds |-> "idle"]
  /\ sChecked = [r \in SReqIds |-> FALSE]
  /\ sReply = [r \in SReqIds |-> "none"]
  /\ tabMessages = <<>>

\* the other components before anything has happened in them
OtherInit == RpcInit /\ DispatchOff /\ ParseOff /\ ContentOff /\ TabInit /\ PlatformOff /\ SafetyOff

\* the agent as the bridge specification sees it: not started
AgentOff == AgentInit /\ ~isServiceWorker /\ ~serverUp

Init == BridgeInit /\ AgentOff /\ OtherInit

\* ------------------------------------------------------------ bridge steps
\* time passes: one millisecond, or a whole timeout period
Tick(d) ==
  /\ \/ d = 1 /\ now % TimeoutMs < MaxMs
     \/ d = TimeoutMs /\ now \div TimeoutMs < MaxEpochs
  /\ now' = now + d
  /\ UNCHANGED <<bsock, chromeExtensionSocket, availableTools, pendingCalls, callSt,
                 callId, timer, outcome, payload, settleCalls, toAgent, toBridge, dups>>
  /\ UNCHANGED <<avars, hvars, ovars>>

\* wss.on("connection")
Connection(s) ==
  /\ bsock[s] = "NONE"
  /\ \A t \in SockIds : t < s => bsock[t] # "NONE"  \* numbered as they arrive
  /\ bsock' = [bsock EXCEPT ![s] = "OPEN"]
  /\ chromeExtensionSocket' = s
  /\ UNCHANGED <<now, availableTools, pendingCalls, callSt, callId, timer, outcome,
                 payload, settleCalls, toAgent, toBridge, dups>>
  /\ UNCHANGED <<avars, hvars, ovars>>

\* ws.on("message"), message.type === "register"
Register(s) ==
  /\ bsock[s] = "OPEN"
  /\ availableTools' = ToolsOf(s)
  /\ registered' = registered \cup {s}
  /\ UNCHANGED <<now, bsock, chromeExtensionSocket, pendingCalls, callSt, callId,
                 timer, outcome, payload, settleCalls, toAgent, toBridge, dups>>
  /\ UNCHANGED <<avars, ovars>>

\* the closing handshake of a socket starts: readyState becomes CLOSING
BeginClose(s) ==
  /\ bsock[s] = "OPEN"
  /\ bsock' = [bsock EXCEPT ![s] = "CLOSING"]
  /\ UNCHANGED <<now, chromeExtensionSocket, availableTools, pendingCalls, callSt,
                 callId, timer, outcome, payload, settleCalls, toAgent, toBridge, dups>>
  /\ UNCHANGED <<avars, hvars, ovars>>

\* ws.on("close")
Close(s) ==
  /\ bsock[s] \in {"OPEN", "CLOSING"}
  /\ bsock' = [bsock EXCEPT ![s] = "CLOSED"]
  /\ chromeExtensionSocket' = NULL
  /\ availableTools' = <<>>
  /\ UNCHANGED <<now, pendingCalls, callSt, callId, timer, outcome, payload,
                 settleCalls, toAgent, toBridge, dups>>
  /\ UNCHANGED <<avars, hvars, ovars>>

\* resolve/reject of request c's promise is invoked; the first invocation
\* settles the promise and handleMCPRequest (its awaiter) answers the request
Settle(c, kind, p) ==
  /\ settleCalls' = [settleCalls EXCEPT ![c] = @ + 1]
  /\ IF settleCalls[c] = 0
        THEN /\ outcome' = [outcome EXCEPT ![c] = kind]
             /\ payload' = [payload EXCEPT ![c] = p]
             /\ callSt' = [callSt EXCEPT ![c] = "done"]
        ELSE UNCHANGED <<outcome, payload, callSt>>

\* the connection test with the readyState comparison left out
ToolsCallConnected_NullOnly == chromeExtensionSocket # NULL

\* handleMCPRequest, case "tools/call": the connection test of lines 102-105
ToolsCallConnected == ExtensionConnected

\* callBrowserTool: its own connection test, lines 1050-1053
CallToolConnected == ExtensionConnected

\* callBrowserTool(toolName, args) for request c, past its connection test:
\* allocate the id, store the pending call, forward it, arm the timeout
CallBrowserTool(c) ==
  LET id == now IN
  /\ callId' = [callId EXCEPT ![c] = id]
  /\ pendingCalls' = MapSet(pendingCalls, id, c)
  /\ toAgent' = toAgent \cup {[id |-> id, req |-> c]}
  /\ timer' = [timer EXCEPT ![c] = TRUE]
  /\ callSt' = [callSt EXCEPT ![c] = "awaiting"]
  /\ UNCHANGED <<outcome, payload>>

\* handleMCPRequest(request) for a tools/call request; hasId: the request
\* carries an id
ToolsCall(c, hasId) ==
  /\ callSt[c] = "idle"
  /\ \A d \in Calls : d < c => callSt[d] # "idle"  \* numbered as they arrive
  /\ IF ~hasId
       THEN \* no id: a notification, no response
            /\ callSt' = [callSt EXCEPT ![c] = "done"]
            /\ outcome' = [outcome EXCEPT ![c] = "no_response"]
            /\ UNCHANGED <<callId, pendingCalls, toAgent, timer, payload>>
       ELSE IF ~ToolsCallConnected
       THEN \* isError result with the setup instructions
            /\ callSt' = [callSt EXCEPT ![c] = "done"]
            /\ outcome' = [outcome EXCEPT ![c] = "not_connected"]
            /\ UNCHANGED <<callId, pendingCalls, toAgent, timer, payload>>
       ELSE IF ~CallToolConnected
       THEN \* callBrowserTool throws, caught at line 136: "Tool execution failed"
            /\ callSt' = [callSt EXCEPT ![c] = "done"]
            /\ outcome' = [outcome EXCEPT ![c] = "tool_failed"]
            /\ UNCHANGED <<callId, pendingCalls, toAgent, timer, payload>>
       ELSE CallBrowserTool(c)
  /\ UNCHANGED <<now, bsock, chromeExtensionSocket, availableTools, settleCalls,
                 toBridge, dups>>
  /\ UNCHANGED <<avars, hvars, ovars>>

\* the setTimeout callback of request c's callBrowserTool
Timeout(c) ==
  /\ timer[c]
  /\ now >= callId[c] + TimeoutMs
  /\ timer' = [timer EXCEPT ![c] = FALSE]
  /\ IF callId[c] \in DOMAIN pendingCalls
       THEN /\ pendingCalls' = MapDelete(pendingCalls, callId[c])
            /\ Settle(c, "timeout", NULL)
       ELSE UNCHANGED <<pendingCalls, settleCalls, outcome, payload, callSt>>
  /\ UNCHANGED <<now, bsock, chromeExtensionSocket, availableTools, callId, toAgent,
                 toBridge, dups>>
  /\ UNCHANGED <<avars, hvars, ovars>>

\* handleToolResponse without its pendingCalls.delete
HandleToolResponse_NoDelete(message) ==
  IF message.id \in DOMAIN pendingCalls
    THEN /\ UNCHANGED pendingCalls
         /\ Settle(pendingCalls[message.id],
                   IF message.err THEN "agent_error" ELSE "result", message.req)
    ELSE UNCHANGED <<pendingCalls, settleCalls, outcome, payload, callSt>>

\* handleToolResponse(message)
HandleToolResponse(message) ==
  IF message.id \in DOMAIN pendingCalls
    THEN /\ pendingCalls' = MapDelete(pendingCalls, message.id)
         /\ Settle(pendingCalls[message.id],
                   IF message.err THEN "agent_error" ELSE "result", message.req)
    ELSE UNCHANGED <<pendingCalls, settleCalls, outcome, payload, callSt>>

\* ws.on("message") for a frame r that carries an id, arriving on an open socket
OnFrame(r) ==
  /\ r \in toBridge
  /\ \E s \in SockIds : bsock[s] = "OPEN"
  /\ toBridge' = toBridge \ {r}
  /\ HandleToolResponse(r)
  /\ UNCHANGED <<now, bsock, chromeExtensionSocket, availableTools, callId, timer,
                 toAgent, dups>>
  /\ UNCHANGED <<avars, hvars, ovars>>

\* ---------------------------------------------- the bridge's environment
\* the agent answers a forwarded call with a result or an error; the frame
\* reaches the bridge once, or twice when duplicated
AgentReply(m, err, copies) ==
  /\ m \in toAgent
  /\ copies = 1 \/ dups < MaxDup
  /\ dups' = dups + (copies - 1)
  /\ toAgent' = toAgent \ {m}
  /\ toBridge' = toBridge \cup
       {[id |-> m.id, req |-> m.req, err |-> err, copy |-> k] : k \in 1..copies}
  /\ UNCHANGED <<now, bsock, chromeExtensionSocket, availableTools, pendingCalls,
                 callSt, callId, timer, outcome, payload, settleCalls>>
  /\ UNCHANGED <<avars, hvars, ovars>>

\* a frame is sent whose id the bridge never issued
StrayFrame ==
  /\ dups < MaxDup
  /\ dups' = dups + 1
  /\ toBridge' = toBridge \cup {[id |-> UnknownId, req |-> NULL, err |-> FALSE, copy |-> 1]}
  /\ UNCHANGED <<now, bsock, chromeExtensionSocket, availableTools, pendingCalls,
                 callSt, callId, timer, outcome, payload, settleCalls, toAgent>>
  /\ UNCHANGED <<avars, hvars, ovars>>

Next ==
  \/ \E d \in {1, TimeoutMs} : Tick(d)
  \/ \E s \in SockIds : Connection(s)
  \/ \E s \in SockIds : Close(s)
  \/ \E s \in SockIds : BeginClose(s)
  \/ \E s \in SockIds : Register(s)
  \/ \E c \in Calls, hasId \in BOOLEAN : ToolsCall(c, hasId)
  \/ \E c \in Calls : Timeout(c)
  \/ \E m \in toAgent, err \in BOOLEAN, copies \in 1..2 : AgentReply(m, err, copies)
  \/ \E r \in toBridge : OnFrame(r)
  \/ StrayFrame

Spec == Init /\ [][Next]_vars

\* ======================================================================
\* The agent's ConnectionManager and request handler
\* ======================================================================
RECURSIVE Pow2(_)
\* Math.pow(2, n)
Pow2(n) == IF n = 0 THEN 1 ELSE 2 * Pow2(n - 1)

\* scheduleReconnect: backoffTime
BackoffTime(attempts) ==
  IF BackoffBase * Pow2(attempts) < BackoffCap
    THEN BackoffBase * Pow2(attempts)
    ELSE BackoffCap

\* WebSocket objects that no handler and no field refers to any more, and the
\* closed one this.mcpSocket still refers to (dropped when it is replaced)
Free == {s \in ASockIds : asock[s] \in {"UNUSED", "CLOSED"}}
NewId == CHOOSE s \in Free : \A t \in Free : s <= t
\* new WebSocket(MCP_SERVER_URL), assigned to this.mcpSocket
AfterNew ==
  [t \in ASockIds |-> IF t = NewId THEN "CONNECTING"
                      ELSE IF asock[t] = "CLOSED" THEN "UNUSED" ELSE asock[t]]

\* this.mcpSocket && this.mcpSocket.readyState === WebSocket.OPEN
SocketOpen == mcpSocket # NULL /\ asock[mcpSocket] = "OPEN"

\* connect(): a connection is created on a service worker always, on a
\* persistent host when there is no open socket
WantsCreate == isServiceWorker \/ ~SocketOpen

\* createConnection: port discovery runs first
NeedsDiscovery == urlDefault \/ reconnectAttempts > DiscoveryThreshold

\* connect() called by a timer or the popup: up to the first suspension
ConnectAnon ==
  IF ~WantsCreate
    THEN UNCHANGED <<asock, mcpSocket, creating>>
    ELSE IF NeedsDiscovery
    THEN /\ creating < MaxCreating
         /\ creating' = creating + 1
         /\ UNCHANGED <<asock, mcpSocket>>
    ELSE /\ Free # {}
         /\ asock' = AfterNew
         /\ mcpSocket' = NewId
         /\ UNCHANGED creating

\* the bridge becomes reachable or unreachable
ServerFlip ==
  /\ serverUp' = ~serverUp
  /\ everUp' = TRUE
  /\ delaySeq' = <<>>
  /\ autoAttempts' = 0
  /\ UNCHANGED <<isServiceWorker, urlDefault, asock, mcpSocket, reconnectAttempts,
                 reconnectInterval, heartbeatInterval, creating, started, manual, hpc,
                 replied>>
  /\ UNCHANGED <<bvars, hvars, ovars>>

\* setTimeout(() => connectionManager.connect(), 1000) at load
Startup ==
  /\ ~started
  /\ started' = TRUE
  /\ ConnectAnon
  /\ UNCHANGED <<isServiceWorker, urlDefault, serverUp, everUp, reconnectAttempts,
                 reconnectInterval, heartbeatInterval, manual, hpc, replied, delaySeq,
                 autoAttempts>>
  /\ UNCHANGED <<bvars, hvars, ovars>>

\* runtime.onMessage, request.action === "reconnect"
ManualConnect ==
  /\ started
  /\ manual < MaxManual
  /\ manual' = manual + 1
  /\ autoAttempts' = 0
  /\ ConnectAnon
  /\ UNCHANGED <<isServiceWorker, urlDefault, serverUp, everUp, reconnectAttempts,
                 reconnectInterval, heartbeatInterval, started, hpc, replied, delaySeq>>
  /\ UNCHANGED <<bvars, hvars, ovars>>

\* createConnection resumes after discoverServerPorts: url is "none" when no
\* port answered, else whether the discovered websocketUrl is the default one
DiscoverDone(url) ==
  /\ creating > 0
  /\ url # "none" => serverUp
  /\ Free # {}
  /\ creating' = creating - 1
  /\ urlDefault' = IF url = "none" THEN urlDefault ELSE (url = "default")
  /\ reconnectAttempts' = 0
  /\ asock' = AfterNew
  /\ mcpSocket' = NewId
  /\ UNCHANGED <<isServiceWorker, serverUp, everUp, reconnectInterval, heartbeatInterval,
                 started, manual, hpc, replied, delaySeq, autoAttempts>>
  /\ UNCHANGED <<bvars, hvars, ovars>>

\* mcpSocket.onopen of socket s
OnOpen(s) ==
  /\ asock[s] = "CONNECTING"
  /\ serverUp
  /\ asock' = [asock EXCEPT ![s] = "OPEN"]
  /\ reconnectInterval' = NULL
  /\ reconnectAttempts' = 0
     \* this.mcpSocket.send(register) throws on a socket that is CONNECTING,
     \* which ends the handler before setupHeartbeat
  /\ heartbeatInterval' =
       IF mcpSocket # s /\ asock[mcpSocket] = "CONNECTING" THEN heartbeatInterval
       ELSE IF isServiceWorker THEN heartbeatInterval
       ELSE TRUE
  /\ UNCHANGED <<isServiceWorker, urlDefault, serverUp, everUp, mcpSocket, creating,
                 started, manual, hpc, replied, delaySeq, autoAttempts>>
  /\ UNCHANGED <<bvars, hvars, ovars>>

\* the closing handshake of socket s starts: readyState becomes CLOSING
AgentBeginClose(s) ==
  /\ asock[s] = "OPEN"
  /\ asock' = [asock EXCEPT ![s] = "CLOSING"]
  /\ UNCHANGED <<isServiceWorker, urlDefault, serverUp, everUp, mcpSocket,
                 reconnectAttempts, reconnectInterval, heartbeatInterval, creating,
                 started, manual, hpc, replied, delaySeq, autoAttempts>>
  /\ UNCHANGED <<bvars, hvars, ovars>>

\* socket s closes: mcpSocket.onerror when the connection failed (withError),
\* then mcpSocket.onclose; normal: the close code is 1000 or 1001
CloseEvent(s, withError, normal) ==
  LET afterError == reconnectAttempts + (IF withError THEN 1 ELSE 0)
      afterClose == afterError + 1
      reschedule == ~normal /\ ~isServiceWorker
  IN
  /\ asock[s] \in {"CONNECTING", "OPEN", "CLOSING"}
     \* a connection attempt ends by failing, with error and code 1006
  /\ asock[s] = "CONNECTING" => (~serverUp /\ withError /\ ~normal)
  /\ normal => ~withError
  /\ afterClose <= AttemptsCap
  /\ asock' = [asock EXCEPT ![s] = IF s = mcpSocket THEN "CLOSED" ELSE "UNUSED"]
  /\ heartbeatInterval' = FALSE
  /\ reconnectAttempts' = afterClose
  /\ reconnectInterval' = IF reschedule THEN BackoffTime(afterClose) ELSE reconnectInterval
  /\ delaySeq' = IF reschedule /\ ~everUp /\ Len(delaySeq) < MaxDelays
                   THEN Append(delaySeq, BackoffTime(afterClose))
                   ELSE delaySeq
  /\ UNCHANGED <<isServiceWorker, urlDefault, serverUp, everUp, mcpSocket, creating,
                 started, manual, hpc, replied, autoAttempts>>
  /\ UNCHANGED <<bvars, hvars, ovars>>

\* the setInterval callback of scheduleReconnect
ReconnectTick ==
  /\ reconnectInterval # NULL
  /\ IF reconnectAttempts < MaxReconnectAttempts
       THEN /\ autoAttempts < MaxAuto
            /\ autoAttempts' = IF everUp THEN 0 ELSE autoAttempts + 1
            /\ ConnectAnon
            /\ UNCHANGED reconnectInterval
       ELSE /\ reconnectInterval' = NULL
            /\ UNCHANGED <<asock, mcpSocket, creating, autoAttempts>>
  /\ UNCHANGED <<isServiceWorker, urlDefault, serverUp, everUp, reconnectAttempts,
                 heartbeatInterval, started, manual, hpc, replied, delaySeq>>
  /\ UNCHANGED <<bvars, hvars, ovars>>

\* the setInterval callback of setupHeartbeat
HeartbeatTick ==
  /\ heartbeatInterval
  /\ IF mcpSocket # NULL /\ asock[mcpSocket] = "CLOSED"
       THEN ConnectAnon
       ELSE UNCHANGED <<asock, mcpSocket, creating>>   \* OPEN: a ping is sent
  /\ UNCHANGED <<isServiceWorker, urlDefault, serverUp, everUp, reconnectAttempts,
                 reconnectInterval, heartbeatInterval, started, manual, hpc, replied,
                 delaySeq, autoAttempts>>
  /\ UNCHANGED <<bvars, hvars, ovars>>

\* connectionManager.send(message): written when this.mcpSocket is OPEN,
\* else logged and dropped; sock, socks: this.mcpSocket and the readyStates
SendOutcome(sock, socks) ==
  IF sock # NULL /\ socks[sock] = "OPEN" THEN "written" ELSE "dropped"

\* handleMCPRequest after ensureConnection: a request that throws before any
\* await (unknown method, safety mode) replies at once, others run their tool
Dispatch(r, kind, sock, socks) ==
  IF kind = "sync"
    THEN /\ hpc' = [hpc EXCEPT ![r] = "done"]
         /\ replied' = [replied EXCEPT ![r] = SendOutcome(sock, socks)]
    ELSE /\ hpc' = [hpc EXCEPT ![r] = "run"]
         /\ UNCHANGED replied

\* mcpSocket.onmessage of socket s: handleMCPRequest(message) up to its first
\* suspension
HandleRequest(r, s, kind) ==
  /\ hpc[r] = "idle"
  /\ asock[s] = "OPEN"
  /\ IF ~WantsCreate
       THEN /\ Dispatch(r, kind, mcpSocket, asock)
            /\ UNCHANGED <<asock, mcpSocket>>
       ELSE IF NeedsDiscovery
       THEN /\ hpc' = [hpc EXCEPT ![r] = IF kind = "sync" THEN "discover_sync"
                                                         ELSE "discover_async"]
            /\ UNCHANGED <<asock, mcpSocket, replied>>
       ELSE /\ Free # {}
            /\ asock' = AfterNew
            /\ mcpSocket' = NewId
            /\ Dispatch(r, kind, NewId, AfterNew)
  /\ UNCHANGED <<isServiceWorker, urlDefault, serverUp, everUp, reconnectAttempts,
                 reconnectInterval, heartbeatInterval, creating, started, manual,
                 delaySeq, autoAttempts>>
  /\ UNCHANGED <<bvars, hvars, ovars>>

\* handleMCPRequest resumes after the port discovery of its ensureConnection
HandlerDiscovered(r, url) ==
  /\ hpc[r] \in {"discover_sync", "discover_async"}
  /\ url # "none" => serverUp
  /\ Free # {}
  /\ urlDefault' = IF url = "none" THEN urlDefault ELSE (url = "default")
  /\ reconnectAttempts' = 0
  /\ asock' = AfterNew
  /\ mcpSocket' = NewId
  /\ Dispatch(r, IF hpc[r] = "discover_sync" THEN "sync" ELSE "async", NewId, AfterNew)
  /\ UNCHANGED <<isServiceWorker, serverUp, everUp, reconnectInterval, heartbeatInterval,
                 creating, started, manual, delaySeq, autoAttempts>>
  /\ UNCHANGED <<bvars, hvars, ovars>>

\* the tool of request r has finished: connectionManager.send({id, result})
\* or connectionManager.send({id, error})
HandlerFinish(r) ==
  /\ hpc[r] = "run"
  /\ hpc' = [hpc EXCEPT ![r] = "done"]
  /\ replied' = [replied EXCEPT ![r] = SendOutcome(mcpSocket, asock)]
  /\ UNCHANGED <<isServiceWorker, urlDefault, serverUp, everUp, asock, mcpSocket,
                 reconnectAttempts, reconnectInterval, heartbeatInterval, creating,
                 started, manual, delaySeq, autoAttempts>>
  /\ UNCHANGED <<bvars, hvars, ovars>>

ANext ==
  \/ ServerFlip
  \/ Startup
  \/ ManualConnect
  \/ \E url \in {"none", "default", "other"} : DiscoverDone(url)
  \/ \E s \in ASockIds : OnOpen(s)
  \/ \E s \in ASockIds : AgentBeginClose(s)
  \/ \E s \in ASockIds, withError \in BOOLEAN, normal \in BOOLEAN :
       CloseEvent(s, withError, normal)
  \/ ReconnectTick
  \/ HeartbeatTick
  \/ \E r \in Reqs, s \in ASockIds, kind \in {"sync", "async"} : HandleRequest(r, s, kind)
  \/ \E r \in Reqs, url \in {"none", "default", "other"} : HandlerDiscovered(r, url)
  \/ \E r \in Reqs : HandlerFinish(r)

AInit == BridgeInit /\ AgentInit /\ OtherInit

AgentSpec == AInit /\ [][ANext]_vars

\* ======================================================================
\* The bridge's request handler and its two transports (stdio, POST /sse)
\* ======================================================================
\* the code of every error envelope
ErrorCode == -32603

\* the ids a request may carry: none, 0 (falsy), 1
RpcIds == {NoId, 0, 1}

\* request methods, split at "/"
Methods == {<<"initialize">>, <<"tools", "list">>, <<"tools", "call">>,
            <<"resources", "list">>, <<"prompts", "list">>,
            <<"notifications", "initialized">>, <<"notifications">>, <<"bogus">>}

\* the cases of handleMCPRequest's switch
KnownMethods == {<<"initialize">>, <<"tools", "list">>, <<"tools", "call">>,
                 <<"resources", "list">>, <<"prompts", "list">>}

Transports == {"stdio", "sse"}

\* method.startsWith("notifications/")
StartsWithNotifications(method) == Len(method) >= 2 /\ method[1] = "notifications"

\* !id
Falsy(id) == id = NoId \/ id = 0

\* getFallbackTools()
FallbackTools == <<"page_analyze", "page_extract_content">>

\* the tools member of the tools/list result
ToolsListResult ==
  IF ExtensionConnected /\ Len(availableTools) > 0
    THEN availableTools
    ELSE FallbackTools

\* return { jsonrpc: "2.0", id, result }
Success(id, result) == [jsonrpc |-> "2.0", id |-> id, result |-> result]

\* return { jsonrpc: "2.0", id, error: { code: -32603, message } }
Failure(id, message) ==
  [jsonrpc |-> "2.0", id |-> id, error |-> [code |-> ErrorCode, message |-> message]]

\* JSON null
JsonNull == [null |-> TRUE]

\* handleMCPRequest awaits callBrowserTool for this request in this state
AwaitsTool(req) ==
  /\ ~(Falsy(req.id) /\ StartsWithNotifications(req.method))
  /\ req.id # NoId
  /\ req.method = <<"tools", "call">>
  /\ ToolsCallConnected

\* what handleMCPRequest returns for a request it answers without awaiting:
\* <<>> for null, or the one envelope
Answer(req) ==
  IF Falsy(req.id) /\ StartsWithNotifications(req.method) THEN <<>>
  ELSE IF req.id = NoId THEN <<>>
  ELSE IF req.method = <<"initialize">>
    THEN <<Success(req.id, [protocolVersion |-> "2024-11-05"])>>
  ELSE IF req.method = <<"tools", "list">>
    THEN <<Success(req.id, [tools |-> ToolsListResult])>>
  ELSE IF req.method = <<"tools", "call">>
    THEN <<Success(req.id, [isError |-> TRUE, text |-> "not connected"])>>
  ELSE IF req.method = <<"resources", "list">>
    THEN <<Success(req.id, [resources |-> <<>>])>>
  ELSE IF req.method = <<"prompts", "list">>
    THEN <<Success(req.id, [prompts |-> <<>>])>>
  ELSE <<Failure(req.id, "Unknown method")>>

\* process.stdin.on("data"): the lines written to stdout for a return value
StdioWrite(ret) == IF ret # <<>> THEN <<ret[1]>> ELSE <<>>

\* app.route('/sse').post: the JSON body of the HTTP response
SseWrite(req, ret) ==
  <<[jsonrpc |-> "2.0", id |-> req.id,
     result |-> IF ret = <<>> THEN JsonNull ELSE ret[1]]>>

TransportWrite(req, ret) ==
  IF req.via = "stdio" THEN StdioWrite(ret) ELSE SseWrite(req, ret)

\* everything but the request handler's own variables
rpcOthers == <<bvars, avars, hvars, dvars, pvars, cvars, tvars, mvars, svars>>

\* a request arrives over a transport and handleMCPRequest(request) runs, to
\* its return or to its await of callBrowserTool
HandleMCPRequest(id, method, via) ==
  LET req == [id |-> id, method |-> method, via |-> via] IN
  /\ rpcSt # "awaiting"
  /\ rpcReq' = req
  /\ IF AwaitsTool(req)
       THEN /\ rpcSt' = "awaiting"
            /\ rpcRet' = <<>>
            /\ rpcOut' = <<>>
       ELSE /\ rpcSt' = "done"
            /\ rpcRet' = Answer(req)
            /\ rpcOut' = TransportWrite(req, Answer(req))
  /\ UNCHANGED rpcOthers

\* the promise of callBrowserTool settles (Spec follows how): resolved, the
\* formatted tool result is returned; rejected, the "Tool execution failed"
\* result
ToolSettles(ok) ==
  LET ret == <<Success(rpcReq.id,
                       [isError |-> ~ok,
                        text |-> IF ok THEN "tool result" ELSE "tool failed"])>> IN
  /\ rpcSt = "awaiting"
  /\ rpcSt' = "done"
  /\ rpcRet' = ret
  /\ rpcOut' = TransportWrite(rpcReq, ret)
  /\ UNCHANGED rpcReq
  /\ UNCHANGED rpcOthers

RpcNext ==
  \/ \E s \in SockIds : Connection(s)
  \/ \E s \in SockIds : Close(s)
  \/ \E s \in SockIds : BeginClose(s)
  \/ \E s \in SockIds : Register(s)
  \/ \E id \in RpcIds, method \in Methods, via \in Transports :
       HandleMCPRequest(id, method, via)
  \/ \E ok \in BOOLEAN : ToolSettles(ok)

RpcSpec == Init /\ [][RpcNext]_vars

\* ======================================================================
\* The agent's dispatcher: sendToContentScript, ensureContentScriptReady
\* ======================================================================
\* ensureContentScriptReady(tabId, retries = 3)
Retries == 3

\* the targetTabId arguments: not given, 0, an open tab, a tab that never was
TabParams == {NoTabId, 0} \cup 1..(MaxTabs + 1)

\* if (targetTabId)
Truthy(n) == n # NoTabId /\ n # 0

\* browser.tabs.sendMessage(t, {action: 'ping'}) is answered with success
PingAnswers(t) == t \in tabs /\ csState[t] = "ready"

\* typeof window.OpenDiaContentScriptLoaded !== "undefined" in tab t
ScriptLoaded(t) == csState[t] \in {"ready", "stale"}

\* everything but the dispatcher's own variables
dispatchOthers == <<bvars, avars, hvars, rvars, pvars, cvars, tvars, mvars, svars>>

\* sendToContentScript(action, data, targetTabId), to its first ping
SendToContentScript(param) ==
  /\ dPc = "idle"
  /\ dParam' = param
  /\ dAttempt' = 1
  /\ dProbed' = {}
  /\ dProbeOk' = {}
  /\ dInjected' = {}
  /\ dSent' = {}
  /\ dEvents' = <<>>
  /\ IF Truthy(param)
       THEN IF param \in tabs
              THEN dTarget' = param /\ dPc' = "probing" /\ dResult' = "none"
              ELSE dTarget' = NULL /\ dPc' = "done" /\ dResult' = "tab_not_found"
       ELSE IF activeTab # NULL
              THEN dTarget' = activeTab /\ dPc' = "probing" /\ dResult' = "none"
              ELSE dTarget' = NULL /\ dPc' = "done" /\ dResult' = "no_active_tab"
  /\ UNCHANGED <<hasScripting, tabs, activeTab, csState, injectable>>
  /\ UNCHANGED dispatchOthers

\* ensureContentScriptReady: one ping of the loop, lines 229-253 and 319-322
Probe ==
  /\ dPc = "probing"
  /\ dProbed' = dProbed \cup {dTarget}
  /\ dEvents' = Append(dEvents, IF PingAnswers(dTarget) THEN "ping_ok" ELSE "ping_failed")
  /\ IF PingAnswers(dTarget)
       THEN \* return true
            /\ dProbeOk' = dProbeOk \cup {dTarget}
            /\ dPc' = "sending"
            /\ UNCHANGED dAttempt
       ELSE /\ UNCHANGED dProbeOk
            /\ IF dAttempt < Retries
                 THEN dAttempt' = dAttempt + 1 /\ UNCHANGED dPc
                 ELSE dPc' = "injecting" /\ UNCHANGED dAttempt
  /\ UNCHANGED <<hasScripting, tabs, activeTab, csState, injectable, dParam, dTarget,
                 dInjected, dSent, dResult>>
  /\ UNCHANGED dispatchOthers

\* ensureContentScriptReady: the last attempt's injection, lines 254-294;
\* fails: executeScript rejects
Inject(fails) ==
  /\ dPc = "injecting"
  /\ dEvents' = dEvents \o
       (IF dTarget \notin tabs THEN <<"tabs_get_failed">>
        ELSE IF ~injectable[dTarget] THEN <<"restricted_url">>
        ELSE IF ~hasScripting /\ ScriptLoaded(dTarget) THEN <<"already_present">>
        ELSE IF fails THEN <<"inject_rejected">>
        ELSE <<"inject", "settle_delay">>)
  /\ IF dTarget \notin tabs \/ ~injectable[dTarget]
       THEN \* tabs.get rejects, or a restricted URL
            /\ dPc' = "done" /\ dResult' = "inject_failed"
            /\ UNCHANGED <<csState, dInjected>>
       ELSE IF ~hasScripting /\ ScriptLoaded(dTarget)
       THEN \* Firefox: "Content script already present", return true
            /\ dPc' = "sending"
            /\ UNCHANGED <<csState, dInjected, dResult>>
       ELSE IF fails
       THEN /\ dPc' = "done" /\ dResult' = "inject_failed"
            /\ UNCHANGED <<csState, dInjected>>
       ELSE \* content.js runs: it starts unless it finds itself loaded
            /\ csState' = [csState EXCEPT ![dTarget] =
                             IF @ = "none" THEN "ready" ELSE @]
            /\ dInjected' = dInjected \cup {dTarget}
            /\ dPc' = "retest"
            /\ UNCHANGED dResult
  /\ UNCHANGED <<hasScripting, tabs, activeTab, injectable, dParam, dTarget, dAttempt,
                 dProbed, dProbeOk, dSent>>
  /\ UNCHANGED dispatchOthers

\* ensureContentScriptReady: the ping after the injection, lines 296-316
Retest ==
  /\ dPc = "retest"
  /\ dProbed' = dProbed \cup {dTarget}
  /\ dEvents' = Append(dEvents, IF PingAnswers(dTarget) THEN "reping_ok" ELSE "reping_failed")
  /\ IF PingAnswers(dTarget)
       THEN /\ dProbeOk' = dProbeOk \cup {dTarget}
            /\ dPc' = "sending"
            /\ UNCHANGED dResult
       ELSE /\ dPc' = "done" /\ dResult' = "inject_failed"
            /\ UNCHANGED dProbeOk
  /\ UNCHANGED <<hasScripting, tabs, activeTab, csState, injectable, dParam, dTarget,
                 dAttempt, dInjected, dSent>>
  /\ UNCHANGED dispatchOthers

\* sendToContentScript: the handler message and its response, lines 1116-1126;
\* ok: the content script answers success
SendHandlerMessage(ok) ==
  /\ dPc = "sending"
  /\ dSent' = dSent \cup {dTarget}
  /\ dPc' = "done"
  /\ dResult' = IF PingAnswers(dTarget) /\ ok THEN "resolved" ELSE "rejected"
  /\ UNCHANGED <<hasScripting, tabs, activeTab, csState, injectable, dParam, dTarget,
                 dAttempt, dProbed, dProbeOk, dInjected, dEvents>>
  /\ UNCHANGED dispatchOthers

\* handleMCPRequest sends the reply; the dispatcher is free for the next call
DispatchReturn ==
  /\ dPc = "done"
  /\ dPc' = "idle"
  /\ UNCHANGED <<hasScripting, tabs, activeTab, csState, injectable, dParam, dTarget,
                 dAttempt, dProbed, dProbeOk, dInjected, dSent, dEvents, dResult>>
  /\ UNCHANGED dispatchOthers

\* ---------------------------------------------- the dispatcher's environment
\* the user closes tab t; another open tab, if any, becomes the active one
TabCloses(t) ==
  /\ t \in tabs
  /\ tabs' = tabs \ {t}
  /\ IF activeTab = t
       THEN activeTab' \in (IF tabs' = {} THEN {NULL} ELSE tabs')
       ELSE UNCHANGED activeTab
  /\ UNCHANGED <<hasScripting, csState, injectable, dPc, dParam, dTarget, dAttempt,
                 dProbed, dProbeOk, dInjected, dSent, dEvents, dResult>>
  /\ UNCHANGED dispatchOthers

\* the user activates another tab
TabActivated(t) ==
  /\ t \in tabs /\ activeTab # t
  /\ activeTab' = t
  /\ UNCHANGED <<hasScripting, tabs, csState, injectable, dPc, dParam, dTarget,
                 dAttempt, dProbed, dProbeOk, dInjected, dSent, dEvents, dResult>>
  /\ UNCHANGED dispatchOthers

\* the content script of tab t stops or starts answering (page busy, page
\* reloaded, script torn down)
ScriptChanges(t, st) ==
  /\ t \in tabs /\ csState[t] # st
  /\ csState' = [csState EXCEPT ![t] = st]
  /\ UNCHANGED <<hasScripting, tabs, activeTab, injectable, dPc, dParam, dTarget,
                 dAttempt, dProbed, dProbeOk, dInjected, dSent, dEvents, dResult>>
  /\ UNCHANGED dispatchOthers

DispatchNext ==
  \/ \E param \in TabParams : SendToContentScript(param)
  \/ Probe
  \/ \E fails \in BOOLEAN : Inject(fails)
  \/ Retest
  \/ \E ok \in BOOLEAN : SendHandlerMessage(ok)
  \/ DispatchReturn
  \/ \E t \in TabIds : TabCloses(t)
  \/ \E t \in TabIds : TabActivated(t)
  \/ \E t \in TabIds, st \in {"ready", "stale", "none"} : ScriptChanges(t, st)

DispatchSpecInit ==
  BridgeInit /\ AgentOff /\ RpcInit /\ DispatchInit /\ ParseOff /\ ContentOff /\ TabInit /\ PlatformOff /\ SafetyOff

DispatchSpec == DispatchSpecInit /\ [][DispatchNext]_vars

\* ======================================================================
\* The content script's intent parser (content.js: parseIntent)
\* ======================================================================
\* Strings are sequences of one-character strings.
LowerOf ==
  [A |-> "a", B |-> "b", C |-> "c", D |-> "d", E |-> "e", F |-> "f", G |-> "g",
   H |-> "h", I |-> "i", J |-> "j", K |-> "k", L |-> "l", M |-> "m", N |-> "n",
   O |-> "o", P |-> "p", Q |-> "q", R |-> "r", S |-> "s", T |-> "t", U |-> "u",
   V |-> "v", W |-> "w", X |-> "x", Y |-> "y", Z |-> "z"]

\* String.prototype.toLowerCase
ToLowerCase(s) ==
  [i \in 1..Len(s) |-> IF s[i] \in DOMAIN LowerOf THEN LowerOf[s[i]] ELSE s[i]]

\* String.prototype.includes
Includes(s, k) ==
  \E i \in 0..(Len(s) - Len(k)) : SubSeq(s, i + 1, i + Len(k)) = k

\* ENHANCED_PATTERNS: the declared confidence (in hundredths) of each
\* category and action
ENHANCED_PATTERNS ==
  [auth |-> [login |-> 90, signup |-> 85],
   content |-> [post_create |-> 95, comment |-> 80],
   search |-> [global |-> 85],
   nav |-> [menu |-> 80],
   form |-> [submit |-> 85, reset |-> 80]]

\* the if-chain of parseIntent, in order: the keywords tested and the pair
\* returned when one of them is included
IntentRules == <<
  [keys |-> {<<"l", "o", "g", "i", "n">>,
             <<"s", "i", "g", "n", " ", "i", "n">>,
             <<"l", "o", "g", " ", "i", "n">>},
   pair |-> <<"auth", "login">>],
  [keys |-> {<<"s", "i", "g", "n", "u", "p">>,
             <<"s", "i", "g", "n", " ", "u", "p">>,
             <<"r", "e", "g", "i", "s", "t", "e", "r">>,
             <<"c", "r", "e", "a", "t", "e", " ", "a", "c", "c", "o", "u", "n", "t">>},
   pair |-> <<"auth", "signup">>],
  [keys |-> {<<"t", "w", "e", "e", "t">>,
             <<"p", "o", "s", "t">>,
             <<"c", "o", "m", "p", "o", "s", "e">>,
             <<"c", "r", "e", "a", "t", "e">>,
             <<"w", "r", "i", "t", "e">>,
             <<"p", "u", "b", "l", "i", "s", "h">>},
   pair |-> <<"content", "post_create">>],
  [keys |-> {<<"c", "o", "m", "m", "e", "n", "t">>,
             <<"r", "e", "p", "l", "y">>},
   pair |-> <<"content", "comment">>],
  [keys |-> {<<"s", "e", "a", "r", "c", "h">>,
             <<"f", "i", "n", "d">>,
             <<"l", "o", "o", "k", " ", "f", "o", "r">>},
   pair |-> <<"search", "global">>],
  [keys |-> {<<"m", "e", "n", "u">>,
             <<"n", "a", "v", "i", "g", "a", "t", "i", "o", "n">>,
             <<"n", "a", "v">>},
   pair |-> <<"nav", "menu">>],
  [keys |-> {<<"s", "u", "b", "m", "i", "t">>,
             <<"s", "e", "n", "d">>,
             <<"s", "a", "v", "e">>},
   pair |-> <<"form", "submit">>],
  [keys |-> {<<"r", "e", "s", "e", "t">>,
             <<"c", "l", "e", "a", "r">>,
             <<"c", "a", "n", "c", "e", "l">>},
   pair |-> <<"form", "reset">>],
  [keys |-> {<<"b", "u", "t", "t", "o", "n">>,
             <<"c", "l", "i", "c", "k">>},
   pair |-> <<"form", "submit">>],
  [keys |-> {<<"i", "n", "p", "u", "t">>,
             <<"f", "i", "e", "l", "d">>,
             <<"t", "e", "x", "t">>},
   pair |-> <<"content", "post_create">>]>>

\* the default fallback replaced by a pair ENHANCED_PATTERNS does not have
DefaultIntent_Unknown == <<"unknown", "unknown">>

\* parseIntent: the default fallback
DefaultIntent == <<"content", "post_create">>

\* parseIntent(intent)
parseIntent(intent) ==
  LET intentLower == ToLowerCase(intent)
      hit(r) == \E k \in IntentRules[r].keys : Includes(intentLower, k)
  IN IF \E r \in 1..Len(IntentRules) : hit(r)
       THEN IntentRules[CHOOSE r \in 1..Len(IntentRules) :
                          hit(r) /\ \A q \in 1..(r - 1) : ~hit(q)].pair
       ELSE DefaultIntent


\* words intent hints are made of: every keyword, keywords in upper case,
\* words that contain a keyword, words that contain none, the empty string
HintWords == {<<"l", "o", "g", "i", "n">>,
              <<"s", "i", "g", "n", " ", "i", "n">>,
              <<"l", "o", "g", " ", "i", "n">>,
              <<"s", "i", "g", "n", "u", "p">>,
              <<"s", "i", "g", "n", " ", "u", "p">>,
              <<"r", "e", "g", "i", "s", "t", "e", "r">>,
              <<"c", "r", "e", "a", "t", "e", " ", "a", "c", "c", "o", "u", "n", "t">>,
              <<"t", "w", "e", "e", "t">>,
              <<"p", "o", "s", "t">>,
              <<"c", "o", "m", "p", "o", "s", "e">>,
              <<"c", "r", "e", "a", "t", "e">>,
              <<"w", "r", "i", "t", "e">>,
              <<"p", "u", "b", "l", "i", "s", "h">>,
              <<"c", "o", "m", "m", "e", "n", "t">>,
              <<"r", "e", "p", "l", "y">>,
              <<"s", "e", "a", "r", "c", "h">>,
              <<"f", "i", "n", "d">>,
              <<"l", "o", "o", "k", " ", "f", "o", "r">>,
              <<"m", "e", "n", "u">>,
              <<"n", "a", "v", "i", "g", "a", "t", "i", "o", "n">>,
              <<"n", "a", "v">>,
              <<"s", "u", "b", "m", "i", "t">>,
              <<"s", "e", "n", "d">>,
              <<"s", "a", "v", "e">>,
              <<"r", "e", "s", "e", "t">>,
              <<"c", "l", "e", "a", "r">>,
              <<"c", "a", "n", "c", "e", "l">>,
              <<"b", "u", "t", "t", "o", "n">>,
              <<"c", "l", "i", "c", "k">>,
              <<"i", "n", "p", "u", "t">>,
              <<"f", "i", "e", "l", "d">>,
              <<"t", "e", "x", "t">>,
              <<>>,
              <<"h", "e", "l", "l", "o">>,
              <<"a", "r", "t", "i", "c", "l", "e">>,
              <<"x", "y", "z">>,
              <<"L", "O", "G", "I", "N">>,
              <<"S", "i", "g", "n", " ", "I", "n">>,
              <<"T", "w", "e", "e", "t">>,
              <<"S", "E", "A", "R", "C", "H">>,
              <<"n", "a", "v", "i", "g", "a", "t", "e">>,
              <<"c", "o", "n", "t", "e", "x", "t">>,
              <<"c", "o", "m", "p", "o", "s", "t">>,
              <<"q", "1">>}

\* intent hints: one word, or up to MaxHintWords words separated by a blank
RECURSIVE HintsOf(_)
HintsOf(n) ==
  IF n = 1 THEN HintWords
  ELSE HintsOf(n - 1) \cup {h \o <<" ">> \o w : h \in HintsOf(n - 1), w \in HintWords}

Hints == HintsOf(MaxHintWords)

\* everything but the parser's own variables
parseOthers == <<bvars, avars, hvars, rvars, dvars, cvars, tvars, mvars, svars>>

\* ENHANCED_PATTERNS[category]?.[action]: the rule's confidence, or
\* NoPattern for undefined
PatternOf(pair) ==
  IF pair[1] \in DOMAIN ENHANCED_PATTERNS
    THEN IF pair[2] \in DOMAIN ENHANCED_PATTERNS[pair[1]]
           THEN ENHANCED_PATTERNS[pair[1]][pair[2]]
           ELSE NoPattern
    ELSE NoPattern

\* a caller is about to hand parseIntent a hint
ParseInit ==
  /\ pHint \in Hints
  /\ pResult = <<>>
  /\ pPattern = NULL

\* tryEnhancedPatterns: const [category, action] = this.parseIntent(intent_hint)
ParseIntentCall ==
  /\ pResult = <<>>
  /\ pResult' = parseIntent(pHint)
  /\ UNCHANGED <<pHint, pPattern>>
  /\ UNCHANGED parseOthers

\* tryEnhancedPatterns: const pattern = ENHANCED_PATTERNS[category]?.[action]
PatternLookup ==
  /\ pResult # <<>>
  /\ pPattern = NULL
  /\ pPattern' = PatternOf(pResult)
  /\ UNCHANGED <<pHint, pResult>>
  /\ UNCHANGED parseOthers

ParseNext == ParseIntentCall \/ PatternLookup

ParseSpecInit ==
  BridgeInit /\ AgentOff /\ RpcInit /\ DispatchOff /\ ParseInit /\ ContentOff /\ TabInit /\ PlatformOff /\ SafetyOff

ParseSpec == ParseSpecInit /\ [][ParseNext]_vars

\* ======================================================================
\* The content script's platform lookup (content.js:
\* detectAntiDetectionPlatform)
\* ======================================================================
\* labels hostnames are built of
HostLabels ==
  {<<"x">>, <<"c", "o", "m">>, <<"o", "r", "g">>, <<"w", "w", "w">>,
   <<"t", "w", "i", "t", "t", "e", "r">>, <<"l", "i", "n", "k", "e", "d", "i", "n">>,
   <<"f", "a", "c", "e", "b", "o", "o", "k">>, <<"n", "e", "t", "f", "l", "i", "x">>,
   <<"c", "o", "n", "s", "t", "r", "u", "c", "t", "o", "r">>}

\* hostnames of n labels
RECURSIVE HostnamesOf(_)
HostnamesOf(n) ==
  IF n = 1 THEN HostLabels
  ELSE {l \o <<".">> \o h : l \in HostLabels, h \in HostnamesOf(n - 1)}

Hostnames == UNION {HostnamesOf(n) : n \in 1..MaxLabels}

\* Object.entries(ANTI_DETECTION_PLATFORMS): the keys, in insertion order
PlatformDomains ==
  <<<<"t", "w", "i", "t", "t", "e", "r", ".", "c", "o", "m">>,
    <<"x", ".", "c", "o", "m">>,
    <<"l", "i", "n", "k", "e", "d", "i", "n", ".", "c", "o", "m">>,
    <<"f", "a", "c", "e", "b", "o", "o", "k", ".", "c", "o", "m">>>>

\* the config of each key, named after its key
PlatformConfigs == <<"twitter.com", "x.com", "linkedin.com", "facebook.com">>

\* property names ANTI_DETECTION_PLATFORMS inherits from Object.prototype
\* that can be a hostname
InheritedKeys == {<<"c", "o", "n", "s", "t", "r", "u", "c", "t", "o", "r">>}

\* String.prototype.endsWith
EndsWith(s, k) == Len(k) <= Len(s) /\ SubSeq(s, Len(s) - Len(k) + 1, Len(s)) = k

\* the first index of a non-empty set of indices
First(S) == CHOOSE d \in S : \A e \in S : d <= e

\* detectAntiDetectionPlatform(hostname): the config returned, "null", or
\* "Object" for the inherited Object.prototype.constructor
detectAntiDetectionPlatform(hostname) ==
  LET exact == {d \in DOMAIN PlatformDomains : PlatformDomains[d] = hostname}
      partial == {d \in DOMAIN PlatformDomains :
                    \/ Includes(hostname, PlatformDomains[d])
                    \/ EndsWith(hostname, <<".">> \o PlatformDomains[d])}
  IN IF exact # {} THEN PlatformConfigs[First(exact)]
     ELSE IF hostname \in InheritedKeys THEN "Object"
     ELSE IF partial # {} THEN PlatformConfigs[First(partial)]
     ELSE "null"

\* everything but the lookup's own variables
platformOthers == <<bvars, avars, hvars, rvars, dvars, pvars, cvars, tvars, svars>>

\* a caller is about to look a hostname up
PlatformInit ==
  /\ hHostname \in Hostnames
  /\ hConfig = "unset"

\* the call
DetectPlatform ==
  /\ hConfig = "unset"
  /\ hConfig' = detectAntiDetectionPlatform(hHostname)
  /\ UNCHANGED hHostname
  /\ UNCHANGED platformOthers

PlatformNext == DetectPlatform

PlatformSpecInit ==
  BridgeInit /\ AgentOff /\ RpcInit /\ DispatchOff /\ ParseOff /\ ContentOff /\ TabInit
    /\ PlatformInit /\ SafetyOff

PlatformSpec == PlatformSpecInit /\ [][PlatformNext]_vars

\* ======================================================================
\* The content script: BrowserAutomation (content.js), one tab
\* ======================================================================
\* the elements a page is made of; name is getElementName(element), rules
\* the ENHANCED_PATTERNS rules one of whose selectors the element matches,
\* platformSel the ANTI_DETECTION_PLATFORMS selector it matches
PostTextarea ==
  [tag |-> "textarea", roleAttr |-> "", editable |-> FALSE, testid |-> FALSE,
   aria |-> FALSE, name |-> <<"w", "r", "i", "t", "e", " ", "a", " ", "p", "o", "s", "t">>,
   rules |-> {<<"content", "post_create">>}, platformSel |-> "none"]
TweetBox ==
  [tag |-> "div", roleAttr |-> "textbox", editable |-> TRUE, testid |-> TRUE,
   aria |-> TRUE, name |-> <<"p", "o", "s", "t", " ", "t", "e", "x", "t">>,
   rules |-> {<<"content", "post_create">>, <<"content", "comment">>},
   platformSel |-> "textarea"]
TweetButton ==
  [tag |-> "button", roleAttr |-> "", editable |-> FALSE, testid |-> TRUE,
   aria |-> FALSE, name |-> <<"p", "o", "s", "t">>,
   rules |-> {<<"content", "post_create">>}, platformSel |-> "submit"]
HomeLink ==
  [tag |-> "a", roleAttr |-> "", editable |-> FALSE, testid |-> FALSE,
   aria |-> FALSE, name |-> <<"h", "o", "m", "e">>,
   rules |-> {}, platformSel |-> "none"]

ElementKinds == <<PostTextarea, TweetBox, TweetButton, HomeLink>>

\* the visible elements of a document, in document order: up to n of the
\* elements above, each at most once, in the order of ElementKinds
RECURSIVE PagesOf(_, _)
PagesOf(n, from) ==
  IF n = 0 \/ from > Len(ElementKinds) THEN {<<>>}
  ELSE PagesOf(n, from + 1) \cup
       {<<ElementKinds[from]>> \o pg : pg \in PagesOf(n - 1, from + 1)}

Pages == PagesOf(MaxElems, 1) \ {<<>>}

\* window.location.hostname: a host that is none of ANTI_DETECTION_PLATFORMS,
\* one that is, and one whose name contains the name of one
Hosts == {"plain", "platform", "lookalike"}

HostnameOf ==
  [plain |-> <<"e", "x", "a", "m", "p", "l", "e", ".", "o", "r", "g">>,
   platform |-> <<"x", ".", "c", "o", "m">>,
   lookalike |-> <<"n", "e", "t", "f", "l", "i", "x", ".", "c", "o", "m">>]

\* the hosts detectAntiDetectionPlatform(hostname) returns a config for
ConfiguredHosts == {h \in Hosts : detectAntiDetectionPlatform(HostnameOf[h]) # "null"}

\* the intent hints of page_analyze
ContentHints == {<<"p", "o", "s", "t">>}

\* element ids: `q${n}` and `element_${n}`
QuickId(n) == [pre |-> "q", n |-> n]
ElementId(n) == [pre |-> "element", n |-> n]
IdParams == {QuickId(n) : n \in 1..MaxIds} \cup {ElementId(n) : n \in 1..MaxIds}

\* what a step inside a fill can do
FillOutcomes == {"filled", "unverified", "throws"}

Positions == [i \in 1..Len(page) |-> i]

\* document.querySelector: the first element in document order, 0 for null
QuerySelector(sel) ==
  LET S == {i \in 1..Len(page) : page[i].platformSel = sel}
  IN IF S = {} THEN 0 ELSE CHOOSE i \in S : \A j \in S : i <= j

\* quickViewportScan: 'button, input, a[href], [role="button"], textarea'
ViewportCandidate(e) ==
  e.tag \in {"button", "input", "a", "textarea"} \/ e.roleAttr = "button"

\* fullEnhancedAnalysis: the relevantElements selector
Relevant(e) ==
  \/ e.tag \in {"button", "input", "select", "textarea", "a"}
  \/ e.roleAttr \in {"button", "textbox", "searchbox"}
  \/ e.aria \/ e.testid \/ e.editable

\* inferElementType
inferElementType(e) ==
  IF e.tag = "input" THEN "input"
  ELSE IF e.tag = "textarea" THEN "textarea"
  ELSE IF e.tag = "button" \/ e.roleAttr = "button" THEN "button"
  ELSE IF e.tag = "a" THEN "link"
  ELSE "element"

\* calculateConfidence, in hundredths
calculateConfidence(e, intentHint) ==
  LET c == 50 + (IF Includes(ToLowerCase(e.name), ToLowerCase(intentHint)) THEN 30 ELSE 0)
              + (IF e.testid THEN 20 ELSE 0)
              + (IF e.aria THEN 10 ELSE 0)
  IN IF c < 100 THEN c ELSE 100

\* generateFingerprint: `${tag}${.primaryClass}@${context}.${position}`
generateFingerprint(i) == <<page[i].tag, "@", i>>

\* Array.prototype.sort((a, b) => b.confidence - a.confidence), stable
RECURSIVE InsertDesc(_, _)
InsertDesc(sorted, x) ==
  IF sorted = <<>> THEN <<x>>
  ELSE IF Head(sorted).confidence >= x.confidence
    THEN <<Head(sorted)>> \o InsertDesc(Tail(sorted), x)
    ELSE <<x>> \o sorted

RECURSIVE SortDesc(_)
SortDesc(s) ==
  IF s = <<>> THEN <<>> ELSE InsertDesc(SortDesc(SubSeq(s, 1, Len(s) - 1)), s[Len(s)])

\* Array.prototype.slice(0, n)
Slice(s, n) == SubSeq(s, 1, IF Len(s) < n THEN Len(s) ELSE n)

\* deduplicateElements: the first element of each name + type
deduplicateElements(s) ==
  LET keep == SelectSeq([k \in 1..Len(s) |-> k],
                        LAMBDA k : \A j \in 1..(k - 1) :
                                     ~(s[j].name = s[k].name /\ s[j].type = s[k].type))
  IN [m \in 1..Len(keep) |-> s[keep[m]]]

\* registerElement for each element of a list: ids counter + 1, counter + 2, ...
RegisterAll(registry, counter, els) ==
  [n \in (DOMAIN registry) \cup (counter + 1)..(counter + Len(els)) |->
     IF n > counter THEN els[n - counter] ELSE registry[n]]

\* getElementById looking every id up in the detailed registry
getElementById_OneRegistry(id) ==
  IF id.n \in DOMAIN elementRegistry THEN elementRegistry[id.n] ELSE 0

\* getElementById(id): the element's position in the document, 0 for undefined
getElementById(id) ==
  IF id.pre = "q"
    THEN IF id.n \in DOMAIN quickRegistry THEN quickRegistry[id.n] ELSE 0
    ELSE IF id.n \in DOMAIN elementRegistry THEN elementRegistry[id.n] ELSE 0

\* handleMessage: the return of its try block
RespondOk(data) == [success |-> TRUE, data |-> data]

\* handleMessage without its catch block
RespondThrown_Rethrow(message) == [exception |-> message]

\* handleMessage: the return of its catch block
RespondThrown(message) == [success |-> FALSE, error |-> message]

\* everything but the content script's own variables
contentOthers == <<bvars, avars, hvars, rvars, dvars, pvars, tvars, mvars, svars>>

\* new BrowserAutomation() in a fresh document
ContentInit ==
  /\ pageGen = 0
  /\ pageHost \in Hosts
  /\ page \in Pages
  /\ elementRegistry = EmptyMap
  /\ quickRegistry = EmptyMap
  /\ idCounter = 0
  /\ quickIdCounter = 0
  /\ issued = {}
  /\ cReq = [action |-> "none"]
  /\ cResp = [success |-> TRUE, data |-> "none"]
  /\ fillSteps = <<>>

\* the tab navigates or reloads: a new document, in which the content
\* script runs from its first line (new BrowserAutomation())
Navigate(host, pg) ==
  /\ pageGen < MaxGen
  /\ pageGen' = pageGen + 1
  /\ pageHost' = host
  /\ page' = pg
  /\ elementRegistry' = EmptyMap
  /\ quickRegistry' = EmptyMap
  /\ idCounter' = 0
  /\ quickIdCounter' = 0
  /\ cReq' = [action |-> "none"]
  /\ cResp' = [success |-> TRUE, data |-> "none"]
  /\ fillSteps' = <<>>
  /\ issued' = {[id |-> i.id, gen |-> i.gen, el |-> 0] : i \in issued}
  /\ UNCHANGED contentOthers

\* tryAntiDetectionPatterns: the platform's textarea and submit elements
PlatformElements ==
  LET ta == QuerySelector("textarea")
      su == QuerySelector("submit")
  IN (IF ta # 0 THEN <<[el |-> ta, type |-> "textarea", confidence |-> 95]>> ELSE <<>>)
     \o (IF su # 0 THEN <<[el |-> su, type |-> "button", confidence |-> 95]>> ELSE <<>>)

\* quickViewportScan(intent_hint, 3), up to compressElement
ViewportScan(intentHint) ==
  LET cands == Slice(SelectSeq(Positions, LAMBDA i : ViewportCandidate(page[i])), 10)
      scored == [k \in 1..Len(cands) |->
                   [el |-> cands[k], type |-> inferElementType(page[cands[k]]),
                    confidence |-> calculateConfidence(page[cands[k]], intentHint)]]
  IN Slice(SortDesc(SelectSeq(scored, LAMBDA x : x.confidence > 30)), 3)

\* handleMessage, action "analyze", phase "discover": quickDiscovery.  The
\* enhanced-pattern branch (lines 671-682) reads `bestMethod`, which is
\* declared nowhere: the test throws a ReferenceError that line 684 catches.
QuickDiscovery(intentHint) ==
  LET usePlatform == /\ pageHost \in ConfiguredHosts
                     /\ \/ Includes(intentHint, <<"p", "o", "s", "t">>)
                        \/ Includes(intentHint, <<"t", "w", "e", "e", "t">>)
      bypass == IF usePlatform THEN PlatformElements ELSE <<>>
      matches == IF bypass # <<>> THEN Slice(bypass, 3) ELSE ViewportScan(intentHint)
      quick == [k \in 1..Len(matches) |->
                  [id |-> QuickId(quickIdCounter + k), type |-> matches[k].type,
                   conf |-> matches[k].confidence]]
  IN /\ idCounter + Len(bypass) <= MaxIds
     /\ quickIdCounter + Len(matches) <= MaxIds
     /\ elementRegistry' =
          RegisterAll(elementRegistry, idCounter, [k \in 1..Len(bypass) |-> bypass[k].el])
     /\ idCounter' = idCounter + Len(bypass)
     /\ quickRegistry' =
          RegisterAll(quickRegistry, quickIdCounter, [k \in 1..Len(matches) |-> matches[k].el])
     /\ quickIdCounter' = quickIdCounter + Len(matches)
     /\ issued' = issued \cup {[id |-> quick[k].id, gen |-> pageGen, el |-> matches[k].el] :
                                  k \in 1..Len(quick)}
     /\ cReq' = [action |-> "analyze", phase |-> "discover", hint |-> intentHint]
     /\ cResp' = RespondOk([quick_matches |-> quick,
                            method |-> IF bypass # <<>> THEN "anti_detection_bypass"
                                       ELSE "viewport_scan"])
     /\ fillSteps' = <<>>
     /\ UNCHANGED <<pageGen, pageHost, page>>
     /\ UNCHANGED contentOthers

\* expandQuickMatches(element_ids): the elements found in the quick registry
ExpandQuickMatches(ids) ==
  LET found == SelectSeq(ids, LAMBDA id : id.pre = "q" /\ id.n \in DOMAIN quickRegistry)
  IN [k \in 1..Len(found) |-> quickRegistry[found[k].n]]

\* handleMessage, action "analyze", phase "detailed": detailedAnalysis with
\* element_ids (no focus_areas)
DetailedAnalysis(intentHint, ids) ==
  LET expanded == ExpandQuickMatches(ids)
      relevant == Slice(SelectSeq(Positions, LAMBDA i : Relevant(page[i])), 30)
      toRegister == IF expanded # <<>> THEN expanded ELSE relevant
      record(k) == [id |-> ElementId(idCounter + k),
                    el |-> toRegister[k],
                    type |-> inferElementType(page[toRegister[k]]),
                    name |-> page[toRegister[k]].name,
                    confidence |-> IF expanded # <<>> THEN 80
                                   ELSE calculateConfidence(page[toRegister[k]], intentHint)]
      all == [k \in 1..Len(toRegister) |-> record(k)]
      elements == IF expanded # <<>> THEN all
                  ELSE Slice(SortDesc(SelectSeq(all, LAMBDA x : x.confidence > 20)), 5)
      kept == Slice(deduplicateElements(elements), 5)
      out == [k \in 1..Len(kept) |->
                [id |-> kept[k].id, fp |-> generateFingerprint(kept[k].el),
                 conf |-> kept[k].confidence]]
  IN /\ idCounter + Len(toRegister) <= MaxIds
     /\ elementRegistry' = RegisterAll(elementRegistry, idCounter, toRegister)
     /\ idCounter' = idCounter + Len(toRegister)
     /\ issued' = issued \cup {[id |-> out[k].id, gen |-> pageGen, el |-> kept[k].el] :
                                  k \in 1..Len(out)}
     /\ cReq' = [action |-> "analyze", phase |-> "detailed", hint |-> intentHint,
                 element_ids |-> ids]
     /\ cResp' = RespondOk([elements |-> out,
                            method |-> IF expanded # <<>> THEN "expanded_matches"
                                       ELSE "full_enhanced_analysis"])
     /\ fillSteps' = <<>>
     /\ UNCHANGED <<pageGen, pageHost, page, quickRegistry, quickIdCounter>>
     /\ UNCHANGED contentOthers

\* handleMessage, action "get_element_state"
GetElementState(id) ==
  /\ cReq' = [action |-> "get_element_state", element_id |-> id]
  /\ cResp' = IF getElementById(id) = 0
                THEN RespondThrown("Element not found")
                ELSE RespondOk([element_id |-> id, el |-> getElementById(id)])
  /\ fillSteps' = <<>>
  /\ UNCHANGED <<pageGen, pageHost, page, elementRegistry, quickRegistry, idCounter,
                 quickIdCounter, issued>>
  /\ UNCHANGED contentOthers

\* shouldUseBypass(element, platformConfig)
shouldUseBypass(i) == page[i].platformSel = "textarea"

\* fillElementStandard: the routines run, and its result or the message of
\* what it throws
FillStandard(id, standard) ==
  [steps |-> <<"standard">>,
   ret |-> IF getElementById(id) = 0 THEN [thrown |-> "Element not found"]
           ELSE IF standard = "throws" THEN [thrown |-> "standard fill threw"]
           ELSE [success |-> standard = "filled", method |-> "standard_fill"]]

\* executeDirectBypass without its catch block
ExecuteDirectBypass_Propagate(id, bypass, standard) ==
  IF bypass = "throws"
    THEN [steps |-> <<"bypass_threw">>, ret |-> [thrown |-> "bypass threw"]]
    ELSE [steps |-> <<"bypass">>,
          ret |-> [success |-> bypass = "filled", method |-> "direct_bypass"]]

\* executeDirectBypass: the bypass sequence, and fillElementStandard when
\* the sequence throws
ExecuteDirectBypass(id, bypass, standard) ==
  IF bypass = "throws"
    THEN [steps |-> <<"bypass_threw">> \o FillStandard(id, standard).steps,
          ret |-> FillStandard(id, standard).ret]
    ELSE [steps |-> <<"bypass">>,
          ret |-> [success |-> bypass = "filled", method |-> "direct_bypass"]]

\* fillElementWithAntiDetection
FillElementWithAntiDetection(id, bypass, standard) ==
  IF getElementById(id) = 0
    THEN [steps |-> <<>>, ret |-> [thrown |-> "Element not found"]]
  ELSE IF pageHost \in ConfiguredHosts /\ shouldUseBypass(getElementById(id))
    THEN ExecuteDirectBypass(id, bypass, standard)
    ELSE FillStandard(id, standard)

\* handleMessage, action "element_fill"; bypass and standard: what the
\* bypass sequence and the standard fill do to the element
ElementFill(id, bypass, standard) ==
  LET run == FillElementWithAntiDetection(id, bypass, standard) IN
  /\ cReq' = [action |-> "element_fill", element_id |-> id]
  /\ cResp' = IF "thrown" \in DOMAIN run.ret
                THEN RespondThrown(run.ret.thrown)
                ELSE RespondOk(run.ret)
  /\ fillSteps' = run.steps
  /\ UNCHANGED <<pageGen, pageHost, page, elementRegistry, quickRegistry, idCounter,
                 quickIdCounter, issued>>
  /\ UNCHANGED contentOthers

ContentNext ==
  \/ \E host \in Hosts, pg \in Pages : Navigate(host, pg)
  \/ \E hint \in ContentHints : QuickDiscovery(hint)
  \/ \E hint \in ContentHints, ids \in {<<>>} \cup {<<id>> : id \in IdParams} :
       DetailedAnalysis(hint, ids)
  \/ \E id \in IdParams : GetElementState(id)
  \/ \E id \in IdParams, bypass \in FillOutcomes, standard \in FillOutcomes :
       ElementFill(id, bypass, standard)

ContentSpecInit ==
  BridgeInit /\ AgentOff /\ RpcInit /\ DispatchOff /\ ParseOff /\ ContentInit /\ TabInit /\ PlatformOff /\ SafetyOff

ContentSpec == ContentSpecInit /\ [][ContentNext]_vars

\* ======================================================================
\* The agent's tab management: createTab, createTabsBatch (background.js)
\* ======================================================================
\* validateTabCreateParams: urls.length > 100
MaxUrls == 100
\* validateTabCreateParams: count > 50
CountLimit == 50
\* createTabsBatch: chunk_size = 5
DefaultChunkSize == 5
\* createTabsBatch: created_tabs: totalTabs <= 10 ? createdTabs : ...
DetailLimit == 10

\* An optional parameter is <<>> when the caller left it out (undefined)
\* and <<v>> when it was given with value v.  A url is a string; an entry
\* of urls is a string, or "#7" for an entry that is no string.
UrlParams == {<<>>, <<"">>, <<"u">>}

RECURSIVE Repeat(_, _)
Repeat(x, n) == IF n <= 0 THEN <<>> ELSE <<x>> \o Repeat(x, n - 1)

\* urls arrays: well-formed ones of up to MaxCount entries, the empty one,
\* ones with a blank, an empty and a non-string entry, and one of 101 entries
UrlsParams ==
  {<<>>} \cup {<<Repeat("u", n)>> : n \in 1..MaxCount}
         \cup {<< <<>> >>, << <<" ">> >>, << <<"u", "">> >>, << <<"u", "#7">> >>,
               <<Repeat("u", MaxUrls + 1)>>}

CountParams == {<<>>} \cup {<<n>> : n \in 0..MaxCount} \cup {<<CountLimit + 1>>}

ActiveParams == {<<>>, <<TRUE>>, <<FALSE>>}

\* batch_settings.chunk_size: left out, 1, 2, and the values 0 and -1
\* that nothing rejects
ChunkParams == {<<>>, <<1>>, <<2>>, <<0>>, <<-1>>}

TabCreateParams ==
  [url : UrlParams, urls : UrlsParams, count : CountParams, active : ActiveParams,
   chunk_size : ChunkParams]

\* JavaScript truthiness of an optional string: undefined and "" are falsy
TruthyString(o) == o # <<>> /\ o[1] # ""
\* JavaScript truthiness of an optional array: every array is truthy
TruthyArray(o) == o # <<>>

\* const { count = 1 } = params
CountOf(p) == IF p.count = <<>> THEN 1 ELSE p.count[1]
\* const { active = true } = params
ActiveOf(p) == IF p.active = <<>> THEN TRUE ELSE p.active[1]
\* const { chunk_size = 5 } = batch_settings
ChunkSizeOf(p) == IF p.chunk_size = <<>> THEN DefaultChunkSize ELSE p.chunk_size[1]

\* typeof urls[i] !== 'string' || !urls[i].trim()
InvalidEntry(e) == e = "#7" \/ e \in {"", " "}

\* validateTabCreateParams: the error, "" for { valid: true }
validateTabCreateParams(p) ==
  IF TruthyString(p.url) /\ TruthyArray(p.urls)
    THEN "Cannot specify both 'url' and 'urls' parameters"
  ELSE IF TruthyArray(p.urls) /\ CountOf(p) > 1
    THEN "Cannot use 'count' with 'urls' array"
  ELSE IF ~TruthyString(p.url) /\ ~TruthyArray(p.urls) /\ CountOf(p) > 1
    THEN "Must specify 'url' when using 'count' parameter"
  ELSE IF TruthyArray(p.urls) /\ Len(p.urls[1]) = 0
    THEN "'urls' must be a non-empty array"
  ELSE IF TruthyArray(p.urls) /\ Len(p.urls[1]) > MaxUrls
    THEN "Maximum 100 URLs allowed in batch operation"
  ELSE IF TruthyArray(p.urls) /\ \E i \in 1..Len(p.urls[1]) : InvalidEntry(p.urls[1][i])
    THEN "Invalid URL at index: must be a non-empty string"
  ELSE IF CountOf(p) < 1 \/ CountOf(p) > CountLimit
    THEN "Count must be between 1 and 50"
  ELSE ""

\* everything but the tab management's own variables
tabOthers == <<bvars, avars, hvars, rvars, dvars, pvars, cvars, mvars, svars>>

\* createTab(params) up to the call of createTabsBatch or createSingleTab
CreateTab(p) ==
  /\ tPc = "idle"
  /\ tParams' = p
  /\ IF validateTabCreateParams(p) # ""
       THEN /\ tRet' = [thrown |-> validateTabCreateParams(p)]
            /\ tPc' = "done"
            /\ tUrls' = tUrls
       ELSE IF TruthyArray(p.urls) /\ Len(p.urls[1]) > 0
         THEN /\ tUrls' = p.urls[1]
              /\ tPc' = "chunk"
              /\ tRet' = tRet
       ELSE IF TruthyString(p.url) /\ CountOf(p) > 1
         THEN /\ tUrls' = Repeat(p.url[1], CountOf(p))
              /\ tPc' = "chunk"
              /\ tRet' = tRet
       ELSE /\ tUrls' = tUrls
            /\ tPc' = "single"
            /\ tRet' = tRet
  /\ UNCHANGED <<chunkStart, tI, newTab, nextTabId, browserActive, userActs, createCalls,
                 createdTabs, errors, tLog>>
  /\ UNCHANGED tabOthers

\* createSingleTab: browser.tabs.create({ active, url }) and the result
CreateSingleTab(ok) ==
  /\ tPc = "single"
  /\ createCalls' = Append(createCalls, [index |-> 0, active |-> ActiveOf(tParams)])
  /\ IF ok
       THEN /\ nextTabId' = nextTabId + 1
            /\ browserActive' = IF ActiveOf(tParams) THEN nextTabId ELSE browserActive
            /\ tRet' = [success |-> TRUE, tab_id |-> nextTabId]
       ELSE /\ UNCHANGED <<nextTabId, browserActive>>
            /\ tRet' = [thrown |-> "tabs.create failed"]
  /\ tPc' = "done"
  /\ UNCHANGED <<tParams, tUrls, chunkStart, tI, newTab, userActs, createdTabs, errors,
                 tLog>>
  /\ UNCHANGED tabOthers

totalTabs == Len(tUrls)
\* Math.min(chunkStart + chunk_size, urls.length)
chunkEnd ==
  IF chunkStart + ChunkSizeOf(tParams) < totalTabs
    THEN chunkStart + ChunkSizeOf(tParams) ELSE totalTabs

\* Array.prototype.slice: an index counted from the end when negative
SliceIndex(k) ==
  IF k < 0 THEN (IF totalTabs + k < 0 THEN 0 ELSE totalTabs + k)
  ELSE IF k > totalTabs THEN totalTabs ELSE k

\* chunk = urls.slice(chunkStart, chunkEnd): its length, and the index of
\* its first entry in urls
ChunkLength ==
  IF SliceIndex(chunkEnd) > SliceIndex(chunkStart)
    THEN SliceIndex(chunkEnd) - SliceIndex(chunkStart) ELSE 0
ChunkBase == SliceIndex(chunkStart)

globalIndex == chunkStart + tI
isLastTab == globalIndex = totalTabs - 1
\* const shouldActivate = active
shouldActivate_Always(active, last) == active

\* const shouldActivate = active && isLastTab
shouldActivate(active, last) == active /\ last

\* events recorded in tLog: a batch that ends makes fewer than LogCap of
\* them, and one that does not end is recorded up to LogCap
LogCap == 2 * MaxCount
Logged(log, event) == IF Len(log) < LogCap THEN Append(log, event) ELSE log

\* chunkStart += chunk_size; every chunkStart below -urls.length gives the
\* same empty chunk again, so the values below it are not told apart
NextChunkStart ==
  IF chunkStart + ChunkSizeOf(tParams) < 0 - totalTabs - 1
    THEN 0 - totalTabs - 1 ELSE chunkStart + ChunkSizeOf(tParams)

\* the end of an iteration of the chunk loop: the wait between chunks
\* unless chunkEnd has reached urls.length
ChunkWait(log) == IF chunkEnd < totalTabs THEN Logged(log, "wait_chunk") ELSE log

\* the inner loop is left after item i
ChunkDone == tI + 1 >= ChunkLength

\* the header of the chunk loop, up to the first item of the chunk or, when
\* the chunk is empty, to the end of the iteration
BatchChunk ==
  /\ tPc = "chunk"
  /\ IF chunkStart >= totalTabs
       THEN /\ tPc' = "finish"
            /\ UNCHANGED <<chunkStart, tI, tLog>>
       ELSE IF ChunkLength = 0
         THEN /\ tPc' = "chunk_end"
              /\ UNCHANGED <<chunkStart, tI, tLog>>
         ELSE /\ tPc' = "create"
              /\ tI' = 0
              /\ UNCHANGED <<chunkStart, tLog>>
  /\ UNCHANGED <<tParams, tUrls, newTab, nextTabId, browserActive, userActs, createCalls,
                 createdTabs, errors, tRet>>
  /\ UNCHANGED tabOthers

\* the end of an iteration of the chunk loop: the wait between chunks, then
\* chunkStart += chunk_size
BatchChunkEnd ==
  /\ tPc = "chunk_end"
  /\ tLog' = ChunkWait(tLog)
  /\ chunkStart' = NextChunkStart
  /\ tPc' = "chunk"
  /\ UNCHANGED <<tParams, tUrls, tI, newTab, nextTabId, browserActive, userActs, createCalls,
                 createdTabs, errors, tRet>>
  /\ UNCHANGED tabOthers

\* catch (error) { errors.push({ index, url, error }) }
PushError(errs, index) == Append(errs, [index |-> index, url |-> tUrls[ChunkBase + tI + 1]])

\* browser.tabs.create({ url, active: shouldActivate }) of one item; when it
\* throws, the catch block and the rest of the iteration
BatchCreate(ok) ==
  /\ tPc = "create"
  /\ createCalls' = Append(createCalls,
       [index |-> globalIndex, active |-> shouldActivate(ActiveOf(tParams), isLastTab)])
  /\ IF ok
       THEN /\ newTab' = nextTabId
            /\ nextTabId' = nextTabId + 1
            /\ browserActive' = IF shouldActivate(ActiveOf(tParams), isLastTab)
                                  THEN nextTabId ELSE browserActive
            /\ tPc' = "check"
            /\ tLog' = Logged(tLog, "attempt")
            /\ UNCHANGED <<errors, chunkStart, tI>>
       ELSE /\ errors' = PushError(errors, globalIndex)
            /\ IF ChunkDone
                 THEN /\ tPc' = "chunk_end"
                      /\ tI' = 0
                 ELSE /\ tI' = tI + 1
                      /\ UNCHANGED tPc
            /\ tLog' = Logged(tLog, "attempt")
            /\ UNCHANGED chunkStart
            /\ UNCHANGED <<newTab, nextTabId, browserActive>>
  /\ UNCHANGED <<tParams, tUrls, userActs, createdTabs, tRet>>
  /\ UNCHANGED tabOthers

\* after 300 ms: browser.tabs.get(tab.id), createdTabs.push and the wait
\* between tabs; the get throws when the tab has been closed in the
\* meantime, and the catch block runs instead
BatchCheck(ok) ==
  /\ tPc = "check"
  /\ IF ok
       THEN /\ createdTabs' = Append(createdTabs,
                 [tab_id |-> newTab, index |-> globalIndex,
                  active |-> browserActive = newTab])
            /\ UNCHANGED errors
       ELSE /\ errors' = PushError(errors, globalIndex)
            /\ UNCHANGED createdTabs
  /\ IF ChunkDone
       THEN /\ tPc' = "chunk_end"
            /\ tI' = 0
            /\ UNCHANGED tLog
       ELSE /\ tLog' = IF ok THEN Logged(tLog, "wait_tab") ELSE tLog
            /\ tI' = tI + 1
            /\ tPc' = "create"
  /\ UNCHANGED <<tParams, tUrls, chunkStart, newTab, nextTabId, browserActive, userActs,
                 createCalls, tRet>>
  /\ UNCHANGED tabOthers

\* the user switches to tab t (0: a tab the batch did not create) while the
\* batch waits
UserActivates(t) ==
  /\ tPc \in {"chunk", "create", "check", "chunk_end"}
  /\ userActs < MaxUserActs
  /\ t \in 0..(nextTabId - 1)
  /\ t # browserActive
  /\ browserActive' = t
  /\ userActs' = userActs + 1
  /\ UNCHANGED <<tParams, tPc, tUrls, chunkStart, tI, newTab, nextTabId, createCalls,
                 createdTabs, errors, tRet, tLog>>
  /\ UNCHANGED tabOthers

\* success: errorCount === 0
BatchSuccess_AnyCreated(successCount, errorCount) == successCount > 0

BatchSuccess(successCount, errorCount) == errorCount = 0

\* summary.failed: errorCount
SummaryFailed_OnePerBatch(errs) == IF Len(errs) > 0 THEN 1 ELSE 0

SummaryFailed(errs) == Len(errs)

\* createTabsBatch: the result object
BatchResult ==
  [success |-> BatchSuccess(Len(createdTabs), Len(errors)),
   batch_operation |-> TRUE,
   summary |-> [total_requested |-> totalTabs,
                successful |-> Len(createdTabs),
                failed |-> SummaryFailed(errors)],
   created_tabs |-> IF totalTabs <= DetailLimit THEN createdTabs
                    ELSE [k \in 1..Len(createdTabs) |-> [tab_id |-> createdTabs[k].tab_id]]]
  @@ (IF Len(errors) > 0
        THEN [errors |-> errors, partial_success |-> Len(createdTabs) > 0]
        ELSE <<>>)

\* createTabsBatch from the end of the loops to its return
BatchReturn ==
  /\ tPc = "finish"
  /\ tRet' = BatchResult
  /\ tPc' = "done"
  /\ UNCHANGED <<tParams, tUrls, chunkStart, tI, newTab, nextTabId, browserActive, userActs,
                 createCalls, createdTabs, errors, tLog>>
  /\ UNCHANGED tabOthers

TabNext ==
  \/ \E p \in TabCreateParams : CreateTab(p)
  \/ \E ok \in BOOLEAN : CreateSingleTab(ok)
  \/ BatchChunk
  \/ BatchChunkEnd
  \/ \E ok \in BOOLEAN : BatchCreate(ok)
  \/ \E ok \in BOOLEAN : BatchCheck(ok)
  \/ \E t \in 0..MaxCount : UserActivates(t)
  \/ BatchReturn

TabSpecInit ==
  BridgeInit /\ AgentOff /\ RpcInit /\ DispatchOff /\ ParseOff /\ ContentOff /\ TabInit /\ PlatformOff /\ SafetyOff

TabSpec == TabSpecInit /\ [][TabNext]_vars

\* the same, every timer firing and every browser call settling eventually
TabLiveSpec ==
  /\ TabSpecInit
  /\ [][TabNext]_vars
  /\ WF_vars(\E ok \in BOOLEAN : CreateSingleTab(ok))
  /\ WF_vars(BatchChunk)
  /\ WF_vars(BatchChunkEnd)
  /\ WF_vars(\E ok \in BOOLEAN : BatchCreate(ok))
  /\ WF_vars(\E ok \in BOOLEAN : BatchCheck(ok))
  /\ WF_vars(BatchReturn)

\* ======================================================================
\* The agent's safety mode (background.js: safetyModeEnabled,
\* handleMCPRequest, the popup's switch)
\* ======================================================================
\* methods of the requests: the two write tools, a read tool that goes to
\* the content script, and a tool the agent answers itself
SafetyMethods == {"element_click", "element_fill", "page_analyze", "tab_list"}

\* const WRITE_EDIT_TOOLS, element_fill left out
WRITE_EDIT_TOOLS_ClickOnly == {"element_click"}

\* const WRITE_EDIT_TOOLS
WRITE_EDIT_TOOLS == {"element_click", "element_fill"}

\* the switch of handleMCPRequest: the action sent to the content script,
\* "" for a method handled in the background
ContentActionOf(method) ==
  IF method = "page_analyze" THEN "analyze"
  ELSE IF method \in {"element_click", "element_fill"} THEN method
  ELSE ""

\* everything but the safety mode's own variables
safetyOthers == <<bvars, avars, hvars, rvars, dvars, pvars, cvars, tvars, mvars>>

\* the module-level code of background.js has run; the stored switch is on
\* or off
SafetyInit ==
  /\ safetyModeEnabled = FALSE
  /\ safetyStored \in BOOLEAN
  /\ safetyLoaded = FALSE
  /\ safetyMsgs = <<>>
  /\ toggles = 0
  /\ sMethod = [r \in SReqIds |-> "none"]
  /\ sPc = [r \in SReqIds |-> "idle"]
  /\ sChecked = [r \in SReqIds |-> FALSE]
  /\ sReply = [r \in SReqIds |-> "none"]
  /\ tabMessages = <<>>

\* the callback of browser.storage.local.get(['safetyMode']) at start-up
StorageLoaded ==
  /\ ~safetyLoaded
  /\ safetyLoaded' = TRUE
  /\ safetyModeEnabled' = safetyStored
  /\ UNCHANGED <<safetyStored, safetyMsgs, toggles, sMethod, sPc, sChecked, sReply,
                 tabMessages>>
  /\ UNCHANGED safetyOthers

\* the popup's switch changes: storage.local.set and the setSafetyMode
\* message
PopupToggle(enabled) ==
  /\ toggles < MaxToggles
  /\ toggles' = toggles + 1
  /\ safetyStored' = enabled
  /\ safetyMsgs' = Append(safetyMsgs, enabled)
  /\ UNCHANGED <<safetyModeEnabled, safetyLoaded, sMethod, sPc, sChecked, sReply,
                 tabMessages>>
  /\ UNCHANGED safetyOthers

\* runtime.onMessage, action "setSafetyMode"
SetSafetyMode ==
  /\ safetyMsgs # <<>>
  /\ safetyModeEnabled' = Head(safetyMsgs)
  /\ safetyMsgs' = Tail(safetyMsgs)
  /\ UNCHANGED <<safetyStored, safetyLoaded, toggles, sMethod, sPc, sChecked, sReply,
                 tabMessages>>
  /\ UNCHANGED safetyOthers

\* handleMCPRequest(message) up to `await connectionManager.ensureConnection()`
SafetyBegin(r, method) ==
  /\ sPc[r] = "idle"
  /\ sMethod' = [sMethod EXCEPT ![r] = method]
  /\ sPc' = [sPc EXCEPT ![r] = "connecting"]
  /\ UNCHANGED <<safetyModeEnabled, safetyStored, safetyLoaded, safetyMsgs, toggles,
                 sChecked, sReply, tabMessages>>
  /\ UNCHANGED safetyOthers

\* handleMCPRequest from the safety check to the first await of the
\* method's case: the check throws (error reply), or the method is answered
\* in the background, or sendToContentScript starts
SafetyCheck(r) ==
  /\ sPc[r] = "connecting"
  /\ sChecked' = [sChecked EXCEPT ![r] = safetyModeEnabled]
  /\ IF safetyModeEnabled /\ sMethod[r] \in WRITE_EDIT_TOOLS
       THEN /\ sReply' = [sReply EXCEPT ![r] = "error"]
            /\ sPc' = [sPc EXCEPT ![r] = "done"]
       ELSE IF ContentActionOf(sMethod[r]) = ""
         THEN /\ sReply' = [sReply EXCEPT ![r] = "result"]
              /\ sPc' = [sPc EXCEPT ![r] = "done"]
         ELSE /\ sPc' = [sPc EXCEPT ![r] = "dispatching"]
              /\ UNCHANGED sReply
  /\ UNCHANGED <<safetyModeEnabled, safetyStored, safetyLoaded, safetyMsgs, toggles,
                 sMethod, tabMessages>>
  /\ UNCHANGED safetyOthers

\* sendToContentScript after the tab lookup and ensureContentScriptReady:
\* they throw (sent = FALSE), or browser.tabs.sendMessage is called and the
\* content script's answer becomes the reply
SafetySend(r, sent, ok) ==
  /\ sPc[r] = "dispatching"
  /\ ~sent => ~ok
  /\ tabMessages' =
       IF sent THEN Append(tabMessages, [req |-> r, action |-> ContentActionOf(sMethod[r]),
                                         enabled |-> safetyModeEnabled])
       ELSE tabMessages
  /\ sReply' = [sReply EXCEPT ![r] = IF ok THEN "result" ELSE "error"]
  /\ sPc' = [sPc EXCEPT ![r] = "done"]
  /\ UNCHANGED <<safetyModeEnabled, safetyStored, safetyLoaded, safetyMsgs, toggles,
                 sMethod, sChecked>>
  /\ UNCHANGED safetyOthers

SafetyNext ==
  \/ StorageLoaded
  \/ \E enabled \in BOOLEAN : PopupToggle(enabled)
  \/ SetSafetyMode
  \/ \E r \in SReqIds, method \in SafetyMethods : SafetyBegin(r, method)
  \/ \E r \in SReqIds : SafetyCheck(r)
  \/ \E r \in SReqIds, sent \in BOOLEAN, ok \in BOOLEAN : SafetySend(r, sent, ok)

SafetySpecInit ==
  BridgeInit /\ AgentOff /\ RpcInit /\ DispatchOff /\ ParseOff /\ ContentOff /\ TabInit
    /\ PlatformOff /\ SafetyInit

SafetySpec == SafetySpecInit /\ [][SafetyNext]_vars

\* ======================================================================
\* Transport / correlation layer (bridge), checked under Spec
\* ======================================================================

\* C1: every call accepted by callBrowserTool is settled exactly once.  A
\* promise settles at most once, and the timeout callback is the last holder
\* of the call's reject: once it has run (which fair timers ensure), the
\* call has been settled, by a reply or by the callback itself.
C1_SettledExactlyOnce ==
  \A c \in Calls : TimerRan(c) => callSt[c] = "done"

\* C2: a caller that is resolved receives the result the agent produced for
\* its own forwarded request, never the reply to another call.
C2_OwnResult ==
  \A c \in Calls : outcome[c] = "result" => payload[c] = c

\* C3: no call id is given to a new call while an earlier call with that id
\* is pending: pending calls have pairwise distinct ids and each has its own
\* pendingCalls entry.
C3_IdNotReusedWhilePending ==
  \A c \in Calls :
    callSt[c] = "awaiting" =>
      /\ callId[c] \in DOMAIN pendingCalls
      /\ pendingCalls[callId[c]] = c
      /\ \A d \in Calls \ {c} : callSt[d] = "awaiting" => callId[d] # callId[c]

\* C4: a forwarded call whose reply has not arrived when its 30 s timer
\* fires is rejected with 'Tool call timeout' and has no pendingCalls entry
\* from then on; a frame with its id handled after that settles no caller
\* and leaves pendingCalls unchanged.
C4_TimeoutRejects ==
  /\ [](\A c \in Calls :
         (TimerRan(c) /\ \E m \in toAgent : m.req = c) =>
           outcome[c] = "timeout")
  /\ [][\A c \in Calls : \A r \in toBridge :
          (outcome[c] = "timeout" /\ r.id = callId[c] /\ toBridge' = toBridge \ {r}) =>
            UNCHANGED <<pendingCalls, settleCalls, outcome, payload, callSt>>]_vars

\* C5: a tools/call request (one with an id) handled while the bridge has no
\* agent socket, or the socket is not OPEN, is answered at once with the
\* 'not connected' isError result: nothing is forwarded, no pendingCalls
\* entry is made and no timer is armed.
C5_NotConnectedImmediate ==
  [][\A c \in Calls :
       ( /\ callSt[c] = "idle" /\ callSt'[c] # "idle"
         /\ outcome'[c] # "no_response"
         /\ (chromeExtensionSocket = NULL \/ bsock[chromeExtensionSocket] # "OPEN") )
       => /\ outcome'[c] = "not_connected"
          /\ callSt'[c] = "done"
          /\ UNCHANGED <<toAgent, toBridge, pendingCalls, timer, callId>>]_vars

\* C5 witness: a request was answered 'not connected' (no entry, no timer,
\* nothing forwarded) while chromeExtensionSocket is set but CLOSING
C5_Witness ==
  \E c \in Calls :
    /\ outcome[c] = "not_connected"
    /\ chromeExtensionSocket # NULL
    /\ bsock[chromeExtensionSocket] = "CLOSING"
    /\ toAgent = {} /\ pendingCalls = EmptyMap /\ ~timer[c]

\* C7: a frame whose id matches no pendingCalls entry is a no-op: it leaves
\* pendingCalls and every caller's outcome unchanged.  A frame that matches
\* an entry removes it and settles a caller nothing has settled before, so
\* a duplicated reply settles its caller at most once.
C7_UnmatchedIsNoOp ==
  [][\A r \in toBridge :
       toBridge' = toBridge \ {r} =>
         IF r.id \notin DOMAIN pendingCalls
           THEN UNCHANGED <<pendingCalls, settleCalls, outcome, payload, callSt, timer>>
           ELSE /\ settleCalls[pendingCalls[r.id]] = 0
                /\ r.id \notin DOMAIN pendingCalls']_vars

\* C7 witness: the only call made was answered by a duplicated reply and
\* both copies have been handled, the second one matching no entry
C7_Witness ==
  /\ \E c \in Calls :
       /\ outcome[c] = "result" /\ payload[c] = c /\ settleCalls[c] = 1
       /\ \A d \in Calls \ {c} : callSt[d] = "idle"
  /\ dups = 1
  /\ toBridge = {} /\ toAgent = {}

\* C8: whenever some agent socket is open, chromeExtensionSocket is non-null
\* and refers to an open socket, availableTools is what was registered over
\* it (nothing, before its register message), /health reports
\* chromeExtensionConnected = true, and tools/call is not answered
\* 'not connected'.
C8_OpenSocketIsCurrent ==
  (\E s \in SockIds : bsock[s] = "OPEN") =>
    /\ chromeExtensionSocket # NULL
    /\ bsock[chromeExtensionSocket] = "OPEN"
    /\ availableTools \in {<<>>, ToolsOf(chromeExtensionSocket)}
    /\ Health.chromeExtensionConnected
    /\ ToolsCallConnected

\* ======================================================================
\* Connection manager and request handler (agent), checked under AgentSpec
\* ======================================================================

\* C6: every forwarded call the agent's handleMCPRequest has handled led to
\* exactly one reply written to an open socket; no reply is dropped because
\* the socket is not open at reply time.
C6_ReplyWritten ==
  \A r \in Reqs : hpc[r] = "done" => replied[r] = "written"

\* the delays of spec section 4.2 for attempts 1..5
ExpectedDelays == <<5000, 10000, 20000, 30000, 30000>>

\* C9: on a persistent host whose server stays unreachable, the delays
\* scheduled after the 1st..5th consecutive failed connection attempts are
\* 5000, 10000, 20000, 30000, 30000 ms.
C9_BackoffSequence ==
  (~isServiceWorker /\ ~everUp) =>
    \A k \in 1..Len(delaySeq) : delaySeq[k] = ExpectedDelays[k]

\* C10: while the server stays unreachable, a persistent host makes at most
\* 10 automatic reconnect attempts before one is triggered manually.
C10_BoundedReconnects ==
  (~isServiceWorker /\ ~everUp) => autoAttempts <= MaxReconnectAttempts

\* ======================================================================
\* Request handler and transports (bridge), checked under RpcSpec
\* ======================================================================

\* the open agent sockets that have registered at least one tool
RegisteredOpen ==
  {s \in SockIds : bsock[s] = "OPEN" /\ s \in registered /\ Len(ToolsOf(s)) > 0}

\* C11: in every bridge state tools/list returns a non-empty list: the tools
\* registered by an open agent socket when there is one that has registered,
\* and the fallback list otherwise.
C11_ListsRegisteredTools ==
  /\ Len(ToolsListResult) > 0
  /\ IF RegisteredOpen # {}
       THEN \E s \in RegisteredOpen : ToolsListResult = ToolsOf(s)
       ELSE ToolsListResult = FallbackTools

\* C12: handleMCPRequest returns no response exactly when the request has no
\* id or its method starts with "notifications/"; every other request gets
\* one envelope that carries the request's id.
C12_ResponseUnlessNotification ==
  rpcSt = "done" =>
    /\ (rpcRet = <<>>) <=>
         (rpcReq.id = NoId \/ StartsWithNotifications(rpcReq.method))
    /\ rpcRet # <<>> => Len(rpcRet) = 1 /\ rpcRet[1].id = rpcReq.id

\* a method no case of the switch handles (and not a notification)
UnknownMethod(method) ==
  method \notin KnownMethods /\ ~StartsWithNotifications(method)

\* C13: a request with an id whose method is unknown is answered with exactly
\* one envelope {jsonrpc, id, error: {code, message}} carrying its id, without
\* a result member; every error member written has code -32603.
C13_UnknownMethodErrorEnvelope ==
  /\ (rpcSt = "done" /\ rpcReq.id # NoId /\ UnknownMethod(rpcReq.method)) =>
       rpcOut = <<Failure(rpcReq.id, "Unknown method")>>
  /\ \A k \in 1..Len(rpcOut) :
       "error" \in DOMAIN rpcOut[k] => rpcOut[k].error.code = -32603

\* C14: for a request with an id, the body POST /sse answers with is the
\* envelope the stdio transport writes for the same return value.
C14_SseBodyIsStdioEnvelope ==
  (rpcSt = "done" /\ rpcReq.id # NoId /\ rpcReq.via = "sse") =>
    rpcOut = StdioWrite(rpcRet)

\* ======================================================================
\* Dispatcher (agent), checked under DispatchSpec
\* ======================================================================

\* C15: sendToContentScript targets the tab named by a given tab_id; when that
\* tab does not exist it fails with "not found" and no tab is probed, injected
\* into or sent a message; with no tab_id it targets the active tab.  Once the
\* target is chosen, pings, injections and messages go to that tab only.
C15_TargetResolution ==
  /\ [][(dPc = "idle" /\ dPc' # "idle") =>
          IF dParam' # NoTabId
            THEN IF dParam' \in tabs
                   THEN dTarget' = dParam' /\ dPc' = "probing"
                   ELSE /\ dPc' = "done" /\ dResult' = "tab_not_found"
                        /\ dProbed' = {} /\ dInjected' = {} /\ dSent' = {}
            ELSE activeTab # NULL => dTarget' = activeTab /\ dPc' = "probing"]_vars
  /\ [](dPc # "idle" => (dProbed \cup dInjected \cup dSent) \subseteq {dTarget})

\* C16: no handler message is sent to a tab unless a ping to that tab was
\* answered with success earlier in the same dispatch; past
\* ensureContentScriptReady (returned true) the target's ping has succeeded.
C16_ProbeBeforeHandler ==
  /\ dSent \subseteq dProbeOk
  /\ dPc = "sending" => dTarget \in dProbeOk

\* ======================================================================
\* Intent parser (content script), checked under ParseSpec
\* ======================================================================

\* the keywords parseIntent recognises
Keywords == UNION {IntentRules[r].keys : r \in 1..Len(IntentRules)}

\* C19: for every hint parseIntent returns a (category, action) pair that is
\* a key of ENHANCED_PATTERNS (the caller's lookup finds a pattern), and a
\* hint that contains none of the recognised keywords maps to the default
\* pair (content, post_create).
C19_ParseIntentTotal ==
  /\ pResult # <<>> =>
       /\ Len(pResult) = 2
       /\ pResult[1] \in DOMAIN ENHANCED_PATTERNS
       /\ pResult[2] \in DOMAIN ENHANCED_PATTERNS[pResult[1]]
       /\ (\A k \in Keywords : ~Includes(ToLowerCase(pHint), k)) =>
            pResult = <<"content", "post_create">>
  /\ pPattern # NULL => pPattern # NoPattern

\* a hint of two words without any keyword has been parsed to the default
\* pair and the caller has found its pattern
C19_Witness ==
  /\ pHint = <<"h", "e", "l", "l", "o", " ", "x", "y", "z">>
  /\ pResult = <<"content", "post_create">>
  /\ pPattern = 95

\* ----------------------------------------------------------------------
\* C17: an element id issued in one page generation resolves to no element
\* in any later generation: getElementById finds nothing for it and
\* get_element_state answers "Element not found", whatever discover and
\* detailed calls have registered since the navigation.
C17_StaleIdNotFound ==
  /\ \A i \in issued : i.gen < pageGen => getElementById(i.id) = 0
  /\ (/\ cReq.action = "get_element_state"
      /\ \E i \in issued : i.id = cReq.element_id /\ i.gen < pageGen)
       => cResp = RespondThrown("Element not found")

\* the elements of the page that match a selector of the pattern rule the
\* hint is parsed to
MatchingElements(hint) == {i \in 1..Len(page) : parseIntent(hint) \in page[i].rules}

\* C18: on a page with exactly one element matching the pattern rule of the
\* parsed intent, phase "discover" returns exactly one quick match whose
\* conf is at least the rule's confidence (in hundredths), and a phase
\* "detailed" call with one registered quick id returns one record whose
\* fingerprint begins with the element's tag name.
C18_TwoPhaseDiscovery ==
  /\ (/\ cReq.action = "analyze" /\ cReq.phase = "discover"
      /\ Cardinality(MatchingElements(cReq.hint)) = 1)
       => /\ Len(cResp.data.quick_matches) = 1
          /\ cResp.data.quick_matches[1].conf >= PatternOf(parseIntent(cReq.hint))
  /\ (/\ cReq.action = "analyze" /\ cReq.phase = "detailed"
      /\ Len(cReq.element_ids) = 1
      /\ cReq.element_ids[1].pre = "q"
      /\ getElementById(cReq.element_ids[1]) # 0)
       => /\ Len(cResp.data.elements) = 1
          /\ cResp.data.elements[1].fp[1] = page[getElementById(cReq.element_ids[1])].tag

\* C20: every element_fill request is answered with one structured response
\* (success true or false, an error text when false); no exception leaves
\* handleMessage, also when the bypass sequence and then the standard fill
\* throw.
C20_FillAlwaysStructured ==
  cReq.action = "element_fill" =>
    /\ "success" \in DOMAIN cResp
    /\ "exception" \notin DOMAIN cResp
    /\ cResp.success \in BOOLEAN
    /\ ~cResp.success => "error" \in DOMAIN cResp

\* a registered bypass element on a platform host, the bypass sequence threw
\* and the standard fill threw too
C20_Witness ==
  /\ cReq.action = "element_fill"
  /\ pageHost = "platform"
  /\ getElementById(cReq.element_id) # 0
  /\ shouldUseBypass(getElementById(cReq.element_id))
  /\ cResp = RespondThrown("standard fill threw")

\* ----------------------------------------------------------------------
\* createTab has returned the result of createTabsBatch
BatchReturned == tPc = "done" /\ "batch_operation" \in DOMAIN tRet

\* the number of URLs the caller asked for
Requested(p) == IF p.urls # <<>> THEN Len(p.urls[1]) ELSE CountOf(p)

\* indices of the items that ended in createdTabs, and in errors
CreatedIndices == {createdTabs[k].index : k \in 1..Len(createdTabs)}
ErrorIndices == {errors[k].index : k \in 1..Len(errors)}

\* C21: a batch that returns reports summary.total_requested equal to the
\* number of requested URLs (count, or the length of urls) and
\* summary.successful + summary.failed equal to it, whichever creations fail.
C21_BatchSummaryAddsUp ==
  BatchReturned =>
    /\ tRet.summary.total_requested = Requested(tParams)
    /\ tRet.summary.successful + tRet.summary.failed = tRet.summary.total_requested
    /\ tRet.summary.successful = Len(tRet.created_tabs)

\* url with count 3: one creation failed, one tab was gone at the check, one
\* tab was created
C21_Witness ==
  /\ BatchReturned
  /\ tParams.url = <<"u">> /\ tParams.count = <<3>>
  /\ tRet.summary = [total_requested |-> 3, successful |-> 1, failed |-> 2]
  /\ Len(createCalls) = 3

\* C22 as stated: at most one entry of created_tabs has active = true.
C22_AtMostOneActiveEntry ==
  BatchReturned =>
    Cardinality({k \in 1..Len(tRet.created_tabs) : tRet.created_tabs[k].active}) <= 1

\* C22, amended: browser.tabs.create is called with active = true only for
\* the item of the last requested index and only when the active parameter
\* is true, hence at most once in a batch; and when the user activates no
\* other tab while the batch runs, at most one entry of created_tabs has
\* active = true.  (An entry's active flag is what browser.tabs.get reports
\* 300 ms after the creation.)
C22_ActivatesOnlyLast ==
  tUrls # <<>> =>
    /\ \A k \in 1..Len(createCalls) :
         createCalls[k].active =>
           createCalls[k].index = totalTabs - 1 /\ ActiveOf(tParams)
    /\ Cardinality({k \in 1..Len(createCalls) : createCalls[k].active}) <= 1
    /\ userActs = 0 =>
         Cardinality({k \in 1..Len(createdTabs) : createdTabs[k].active}) <= 1

\* a batch of three with active = true has returned: the third call, and
\* only it, asked for an active tab, and the third entry is the active one
C22_Witness ==
  /\ BatchReturned
  /\ ActiveOf(tParams)
  /\ Len(createCalls) = 3
  /\ createCalls[3].active
  /\ userActs = 0
  /\ Len(tRet.created_tabs) = 3
  /\ tRet.created_tabs[3].active

\* the parameter combinations the validation is to reject, a parameter
\* counting as given when the caller passed it
MustReject(p) ==
  \/ p.url # <<>> /\ p.urls # <<>>
  \/ p.urls # <<>> /\ CountOf(p) > 1
  \/ CountOf(p) > 1 /\ p.url = <<>>
  \/ /\ p.urls # <<>>
     /\ \/ Len(p.urls[1]) = 0
        \/ Len(p.urls[1]) > MaxUrls
        \/ \E i \in 1..Len(p.urls[1]) : InvalidEntry(p.urls[1][i])
  \/ CountOf(p) < 1 \/ CountOf(p) > CountLimit

\* C23: createTab called with url and urls both given, urls with count > 1,
\* count > 1 without url, an empty or over-long urls or one with a
\* non-string or blank entry, or a count outside 1..50, throws a validation
\* error and calls browser.tabs.create not once.
C23_ValidationRejects ==
  (tPc # "idle" /\ MustReject(tParams)) =>
    /\ tPc = "done"
    /\ "thrown" \in DOMAIN tRet
    /\ createCalls = <<>>

\* C24: a batch that returns has attempted every URL in order, every item is
\* in exactly one of created_tabs and errors, success is true iff no item
\* failed, and success = false comes with partial_success = true exactly
\* when at least one item succeeded and at least one failed.
C24_BatchContinuesAfterFailure ==
  BatchReturned =>
    /\ Len(createCalls) = totalTabs
    /\ \A k \in 1..Len(createCalls) : createCalls[k].index = k - 1
    /\ CreatedIndices \cup ErrorIndices = 0..(totalTabs - 1)
    /\ CreatedIndices \cap ErrorIndices = {}
    /\ Len(errors) = Cardinality(ErrorIndices)
    /\ tRet.success <=> Len(errors) = 0
    /\ Len(errors) > 0 => tRet.errors = errors
    /\ (/\ ~tRet.success
        /\ "partial_success" \in DOMAIN tRet
        /\ tRet.partial_success)
         <=> (Len(createdTabs) > 0 /\ Len(errors) > 0)

\* the first of three creations failed, the other two tabs were created
C24_Witness ==
  /\ BatchReturned
  /\ Len(createCalls) = 3
  /\ ErrorIndices = {0}
  /\ CreatedIndices = {1, 2}
  /\ ~tRet.success
  /\ tRet.partial_success

\* ----------------------------------------------------------------------
\* every ping of the loop of this ensureContentScriptReady run failed
AllProbesFailed ==
  Len(dEvents) >= Retries /\ \A k \in 1..Retries : dEvents[k] = "ping_failed"

\* what the run did after the loop's pings
AfterProbes == SubSeq(dEvents, Retries + 1, Len(dEvents))

\* ensureContentScriptReady has returned or thrown
ReadyRunOver == dPc \in {"sending", "done", "idle"}

\* how often event e occurs in the run
Occurrences(e) == Cardinality({k \in 1..Len(dEvents) : dEvents[k] = e})

\* C25: a run of ensureContentScriptReady in which every ping of the loop
\* fails, for a tab that is still open, makes exactly one injection call when
\* the tab's URL is injectable (followed, unless the call is rejected, by the
\* settle delay and one re-ping), and makes none and fails when the URL is
\* restricted.
C25_OneInjectionThenReprobe ==
  (AllProbesFailed /\ ReadyRunOver /\ dTarget \in tabs) =>
    IF injectable[dTarget]
      THEN AfterProbes \in {<<"inject", "settle_delay", "reping_ok">>,
                            <<"inject", "settle_delay", "reping_failed">>,
                            <<"inject_rejected">>}
      ELSE AfterProbes = <<"restricted_url">> /\ dResult = "inject_failed"

\* C26: a run of ensureContentScriptReady makes at most 3 pings, one
\* injection and one re-ping, and a run in which no ping was answered does
\* not return true: no handler message is sent after it.
C26_BoundedAndThrowsWhenSilent ==
  /\ Occurrences("ping_ok") + Occurrences("ping_failed") <= Retries
  /\ Occurrences("inject") + Occurrences("inject_rejected") <= 1
  /\ Occurrences("reping_ok") + Occurrences("reping_failed") <= 1
  /\ (dEvents # <<>> /\ Occurrences("ping_ok") + Occurrences("reping_ok") = 0) =>
       (dPc # "sending" /\ dSent = {})

\* ----------------------------------------------------------------------
\* ConnectionManager (agent), checked under AgentSpec
\* socket s closes in this step (onclose runs)
Closes(s) ==
  asock[s] \in {"CONNECTING", "OPEN", "CLOSING"} /\ asock'[s] \in {"CLOSED", "UNUSED"}

\* socket s opens in this step (onopen runs)
Opens(s) == asock[s] = "CONNECTING" /\ asock'[s] = "OPEN"

\* C27: when a socket of the agent closes the heartbeat timer is stopped and,
\* on a persistent host, a reconnect timer is armed whatever the close code;
\* on a service-worker host no reconnect timer is ever armed.
C27_CloseStopsHeartbeatAndReschedules ==
  /\ [][\A s \in ASockIds :
          Closes(s) => /\ heartbeatInterval' = FALSE
                       /\ ~isServiceWorker => reconnectInterval' # NULL]_vars
  /\ [](isServiceWorker => reconnectInterval = NULL)

\* C28: whenever a socket of the agent opens, the attempts counter is 0 and
\* the reconnect timer cleared afterwards, the register message goes out on
\* the socket that opened, and the heartbeat timer runs afterwards iff the
\* host is persistent.
C28_OpenResetsAndRegisters ==
  [][\A s \in ASockIds :
       Opens(s) => /\ reconnectAttempts' = 0
                   /\ reconnectInterval' = NULL
                   /\ mcpSocket = s
                   /\ heartbeatInterval' <=> ~isServiceWorker]_vars

\* C29: on a persistent host a lost connection for which no reconnect is
\* scheduled or under way still has the heartbeat timer running, whose next
\* tick calls connect().
C29_HeartbeatReattempts ==
  (/\ ~isServiceWorker
   /\ mcpSocket # NULL /\ asock[mcpSocket] = "CLOSED"
   /\ reconnectInterval = NULL
   /\ creating = 0
   /\ reconnectAttempts < MaxReconnectAttempts)
    => heartbeatInterval

\* C30: at most one WebSocket of the ConnectionManager is CONNECTING or OPEN.
C30_SingleLiveSocket ==
  Cardinality({s \in ASockIds : asock[s] \in {"CONNECTING", "OPEN"}}) <= 1

\* ----------------------------------------------------------------------
\* content script, checked under ContentSpec
\* C31: phase "discover" answers with method "anti_detection_bypass" when
\* the platform patterns matched, otherwise with "enhanced_patterns" when
\* the pattern rule of the parsed intent has a confidence above 0.7 and
\* matches an element, and with "viewport_scan" only when neither did.
C31_SourcePriority ==
  (cReq.action = "analyze" /\ cReq.phase = "discover") =>
    cResp.data.method =
      IF (/\ pageHost \in ConfiguredHosts
          /\ \/ Includes(cReq.hint, <<"p", "o", "s", "t">>)
             \/ Includes(cReq.hint, <<"t", "w", "e", "e", "t">>)
          /\ PlatformElements # <<>>)
        THEN "anti_detection_bypass"
      ELSE IF (/\ PatternOf(parseIntent(cReq.hint)) > 70
               /\ MatchingElements(cReq.hint) # {})
        THEN "enhanced_patterns"
      ELSE "viewport_scan"

\* ----------------------------------------------------------------------
\* platform lookup, checked under PlatformSpec
\* the configured domains a hostname equals, and those it ends with "." +
SameDomain(hostname) == {d \in DOMAIN PlatformDomains : PlatformDomains[d] = hostname}
SubdomainOf(hostname) ==
  {d \in DOMAIN PlatformDomains : EndsWith(hostname, <<".">> \o PlatformDomains[d])}

\* C32: detectAntiDetectionPlatform returns the config of the domain the
\* hostname equals, else the config of the first domain the hostname ends
\* with "." + domain of, and null for every other hostname.
C32_ExactThenSuffix ==
  hConfig # "unset" =>
    hConfig = IF SameDomain(hHostname) # {} THEN PlatformConfigs[First(SameDomain(hHostname))]
              ELSE IF SubdomainOf(hHostname) # {}
                THEN PlatformConfigs[First(SubdomainOf(hHostname))]
              ELSE "null"

\* ----------------------------------------------------------------------
\* element_fill, checked under ContentSpec
\* the page's hostname is a configured domain or a subdomain of one
HostMatches == SameDomain(HostnameOf[pageHost]) \cup SubdomainOf(HostnameOf[pageHost]) # {}

\* C33: an element_fill whose id is in neither registry fails with "Element
\* not found" before any fill routine starts; otherwise the bypass sequence
\* is entered iff the page's hostname matches a platform config and the
\* element satisfies the platform's textarea selector, and the standard
\* fill is entered in every other case.
C33_BypassIffPlatformTextarea ==
  cReq.action = "element_fill" =>
    IF getElementById(cReq.element_id) = 0
      THEN fillSteps = <<>> /\ cResp = RespondThrown("Element not found")
    ELSE IF HostMatches /\ shouldUseBypass(getElementById(cReq.element_id))
      THEN fillSteps # <<>> /\ Head(fillSteps) \in {"bypass", "bypass_threw"}
      ELSE fillSteps = <<"standard">>

\* C34: when the bypass sequence throws, the standard fill runs exactly
\* once after it and no bypass sequence runs again; the bypass exception
\* does not reach the caller, and a result returned to it has method
\* "standard_fill".
C34_FallbackOnce ==
  (/\ cReq.action = "element_fill"
   /\ fillSteps # <<>> /\ Head(fillSteps) = "bypass_threw")
    => /\ fillSteps = <<"bypass_threw", "standard">>
       /\ cResp # RespondThrown("bypass threw")
       /\ cResp.success => cResp.data.method = "standard_fill"

\* the bypass sequence threw and the standard fill filled the element
C34_Witness ==
  /\ cReq.action = "element_fill"
  /\ fillSteps = <<"bypass_threw", "standard">>
  /\ cResp.success
  /\ cResp.data = [success |-> TRUE, method |-> "standard_fill"]

\* ----------------------------------------------------------------------
\* element ids, checked under ContentSpec
\* registry r' keeps every entry of r and its new ids are exactly the
\* numbers after counter c up to c'
GrowsFresh(r, rNext, c, cNext) ==
  /\ \A n \in DOMAIN r : n \in DOMAIN rNext /\ rNext[n] = r[n]
  /\ DOMAIN rNext \ DOMAIN r = (c + 1)..cNext

\* C35: within one page generation every registration gets an id no earlier
\* registration got, a quick id (q<n>) and a detailed id (element_<n>) are
\* never the same id and each is looked up in its own registry only, and an
\* id returned to the caller keeps resolving to the element it was returned
\* for.
C35_IdsUniqueAndStable ==
  /\ [](/\ DOMAIN quickRegistry = 1..quickIdCounter
        /\ DOMAIN elementRegistry = 1..idCounter
        /\ \A i \in issued : i.gen = pageGen =>
             /\ getElementById(i.id) = i.el
             /\ i.id.pre = "q" => quickRegistry[i.id.n] = i.el
             /\ i.id.pre = "element" => elementRegistry[i.id.n] = i.el
        /\ \A i, j \in issued : (i.gen = j.gen /\ i.id = j.id) => i.el = j.el)
  /\ [][pageGen' = pageGen =>
          /\ GrowsFresh(quickRegistry, quickRegistry', quickIdCounter, quickIdCounter')
          /\ GrowsFresh(elementRegistry, elementRegistry', idCounter, idCounter')]_vars

\* q1 and element_1 have been returned in the same generation, for two
\* different elements, and both registries hold two ids
C35_Witness ==
  /\ \E i, j \in issued :
       /\ i.gen = pageGen /\ j.gen = pageGen
       /\ i.id = QuickId(1) /\ j.id = ElementId(1)
       /\ i.el # j.el
  /\ quickIdCounter = 2
  /\ idCounter = 2

\* ----------------------------------------------------------------------
\* phase "detailed" with element_ids, checked under ContentSpec
\* the elements the given ids resolve to in the quick registry
ResolvedBy(ids) ==
  {quickRegistry[ids[k].n] :
     k \in {m \in 1..Len(ids) : ids[m].pre = "q" /\ ids[m].n \in DOMAIN quickRegistry}}

\* C40: a phase "detailed" call given element_ids returns records only for
\* elements the given ids resolve to in the quick registry, at most 7 of
\* them, and never the result of the full-page analysis.
C40_OnlyTheGivenIds ==
  (/\ cReq.action = "analyze" /\ cReq.phase = "detailed"
   /\ cReq.element_ids # <<>>)
    => /\ Len(cResp.data.elements) <= 7
       /\ \A k \in 1..Len(cResp.data.elements) :
            elementRegistry[cResp.data.elements[k].id.n] \in ResolvedBy(cReq.element_ids)
       /\ cResp.data.method # "full_enhanced_analysis"

\* ----------------------------------------------------------------------
\* batch pacing and termination, checked under TabSpec and TabLiveSpec
\* positions of the creation attempts in tLog, in order
AttemptPositions == SelectSeq([k \in 1..Len(tLog) |-> k], LAMBDA k : tLog[k] = "attempt")

\* C36: with a chunk_size of at least 1, exactly one wait lies between two
\* consecutive creation attempts of a batch, whether they succeed or fail:
\* the wait between tabs when both are in the same chunk, the wait between
\* chunks when the second starts the next chunk (so no more than chunk_size
\* attempts follow one another without a wait between chunks).
C36_AttemptsArePaced ==
  (tUrls # <<>> /\ ChunkSizeOf(tParams) >= 1) =>
    \A k \in 1..(Len(AttemptPositions) - 1) :
      SubSeq(tLog, AttemptPositions[k] + 1, AttemptPositions[k + 1] - 1) =
        IF (k - 1) \div ChunkSizeOf(tParams) = k \div ChunkSizeOf(tParams)
          THEN <<"wait_tab">> ELSE <<"wait_chunk">>

\* C37: every batch that createTab starts returns, and when it has returned
\* each requested URL has been attempted exactly once, for every chunk_size.
C37_BatchTerminates ==
  /\ [](BatchReturned =>
          /\ Len(createCalls) = totalTabs
          /\ \A k \in 1..Len(createCalls) : createCalls[k].index = k - 1)
  /\ (tPc \in {"chunk", "chunk_end", "create", "check", "finish"}) ~> (tPc = "done")

\* C38: on a persistent host, whenever the ConnectionManager's current
\* socket is OPEN the heartbeat timer is armed and no reconnect timer is.
C38_OpenMeansHeartbeatOnly ==
  (~isServiceWorker /\ SocketOpen) => (heartbeatInterval /\ reconnectInterval = NULL)

\* ----------------------------------------------------------------------
\* safety mode, checked under SafetySpec
\* the browser.tabs.sendMessage calls made for request r
MessagesOf(r) == {k \in 1..Len(tabMessages) : tabMessages[k].req = r}

\* the safety check of request r has run
Checked(r) == sPc[r] \in {"dispatching", "done"}

\* request r is a write tool whose check found safety mode enabled
Blocked(r) == Checked(r) /\ sChecked[r] /\ sMethod[r] \in {"element_click", "element_fill"}

\* every other request is dispatched as usual: a method of the content
\* script is on its way there, was sent there, or failed on the way; a
\* background method is answered
DispatchedAsUsual(r) ==
  IF ContentActionOf(sMethod[r]) = "" THEN sPc[r] = "done" /\ sReply[r] = "result"
  ELSE \/ sPc[r] = "dispatching" /\ MessagesOf(r) = {}
       \/ /\ sPc[r] = "done"
          /\ \/ sReply[r] = "error" /\ MessagesOf(r) = {}
             \/ \E k \in MessagesOf(r) :
                  MessagesOf(r) = {k} /\ tabMessages[k].action = ContentActionOf(sMethod[r])

\* a setSafetyMode message sets safetyModeEnabled to its `enabled`, and the
\* check of a request reads safetyModeEnabled as it is then
TakesEffect ==
  /\ (safetyMsgs # <<>> /\ safetyMsgs' = Tail(safetyMsgs))
       => safetyModeEnabled' = Head(safetyMsgs)
  /\ \A r \in SReqIds :
       (~Checked(r) /\ Checked(r)') => sChecked'[r] = safetyModeEnabled

====
